---- MODULE Spec2Model ----
(***************************************************************************)
(* Tenant resolution, session store, authentication gate and tenant-scoped *)
(* data access of the multi-tenant blog application.                       *)
(*                                                                         *)
(* The database (Prisma/PostgreSQL) is the only shared state: the User and *)
(* Session tables are sets of rows, the Tenant table is fixed.  Strings    *)
(* that the code normalises or measures (subdomains, emails, passwords)    *)
(* are sequences of one-character strings.  Time is counted in days.       *)
(***************************************************************************)
EXTENDS Integers, Sequences, FiniteSets, TLC

\* ------------------------------------------------------------------ bounds
MaxTime   == 60     \* the clock stops here (days)
MaxTokens == 2      \* number of session tokens that can be generated
MaxUsers  == 2      \* number of user ids that can be generated
MaxInFlight == 2    \* number of signup requests being handled at once
MaxPieces == 6      \* length of a Host header, in pieces (see Pieces)
MaxSubLen == 3      \* length of a subdomain given to getTenantBySubdomain
MaxValidations == 1 \* number of getSession calls in flight at once

\* ------------------------------------------------------- program constants
SESSION_EXPIRATION_DAYS == 30

\* ------------------------------------------------------------ value spaces
NoToken  == 0                     \* no session_token cookie
NoUser   == 0                     \* null user
NoTenant == "none"                \* null tenant / tenantId not supplied
Tokens   == 1..MaxTokens
UserIds  == 1..MaxUsers

\* The Tenant table: provisioned out of band, read-only for this core.
TenantTable ==
    { [id |-> "T1", subdomain |-> <<"a">>],
      [id |-> "T2", subdomain |-> <<"b">>] }
TenantIds == { t.id : t \in TenantTable }

\* values of the x-tenant-subdomain request header (<<>>: absent or empty)
HeaderValues == { <<>>, <<"a">>, <<"B", " ">>, <<"c">> }

\* request bodies {email, password} of signup and login (<<>>: missing)
EmailLower == <<"a", "@", "b", ".", "c">>
EmailUpper == <<"A", "@", "b", ".", "c">>
EmailBad   == <<"a", "b", ".", "c">>
Pass5      == <<"p", "p", "p", "p", "p">>
Pass6      == <<"p", "p", "p", "p", "p", "p">>
PassOther  == <<"q", "q", "q", "q", "q", "q">>

Bodies ==
    { [email |-> EmailLower, password |-> Pass6],
      [email |-> EmailUpper, password |-> Pass6],
      [email |-> EmailLower, password |-> PassOther],
      [email |-> EmailLower, password |-> Pass5],
      [email |-> EmailBad,   password |-> Pass6],
      [email |-> <<>>,       password |-> Pass6],
      [email |-> EmailLower, password |-> <<>>] }

\* --------------------------------------------------------- string helpers
LowerChar(c) ==
    CASE c = "A" -> "a"
      [] c = "B" -> "b"
      [] c = "C" -> "c"
      [] OTHER   -> c

\* String.prototype.toLowerCase
toLowerCase(s) == [i \in 1..Len(s) |-> LowerChar(s[i])]

IsSpace(c) == c = " "

RECURSIVE trimStart(_)
trimStart(s) ==
    IF s # <<>> /\ IsSpace(Head(s)) THEN trimStart(Tail(s)) ELSE s

RECURSIVE trimEnd(_)
trimEnd(s) ==
    IF s # <<>> /\ IsSpace(s[Len(s)])
    THEN trimEnd(SubSeq(s, 1, Len(s) - 1))
    ELSE s

\* String.prototype.trim
trim(s) == trimEnd(trimStart(s))

\* --------------------------------------------------------------- variables
VARIABLES
    users,       \* User table: rows [id, email, password, tenantId]
    sessions,    \* Session table: rows [userId, tenantId, token, expiresAt]
    now,         \* the server clock (new Date()), in days
    nextToken,   \* the next token crypto.randomBytes will produce
    nextUid,     \* the next user id the database will generate
    orgSettings, \* OrgSettings table: rows [tenantId, settings]
    last,        \* the last completed call: what the caller observed
    pending      \* signup requests in flight, between two awaits

vars == <<users, sessions, orgSettings, now, nextToken, nextUid, last,
          pending>>

\* ------------------------------------------------------------- null values
NullSession ==
    [ok |-> FALSE, userId |-> NoUser, tenantId |-> NoTenant, token |-> NoToken]

NullUserRow ==
    [id |-> NoUser, email |-> <<>>, password |-> <<>>, tenantId |-> NoTenant]

NullTenant == [id |-> NoTenant, subdomain |-> <<>>]

\* the requests the server handles at once, and a slot with no request
Slots == 1..MaxInFlight

Idle == [pc |-> "idle", tenantId |-> NoTenant, email |-> <<>>,
         password |-> <<>>, userId |-> NoUser,
         token |-> NoToken, expiresAt |-> 0, reqTenant |-> NoTenant,
         gate |-> "", calls |-> <<>>]

\* ------------------------------------------------- the database (Prisma)
\* Schema constraints: Session.token is unique, Session.userId and
\* Session.tenantId are foreign keys, User (email, tenantId) is unique.

\* prisma.session.findUnique({ where: { token } }): the rows found (0 or 1)
prisma_session_findUnique(S, token) == { s \in S : s.token = token }

\* prisma.session.delete({ where: { token } }): throws when no row matches
prisma_session_delete(S, token) ==
    IF prisma_session_findUnique(S, token) = {}
    THEN [threw |-> TRUE,  S |-> S]
    ELSE [threw |-> FALSE, S |-> S \ prisma_session_findUnique(S, token)]

\* prisma.session.create({ data }): throws on a constraint violation
\* session.create without the unique index on token
prisma_session_create_noTokenUnique(S, U, row) ==
    IF \/ row.userId \notin { u.id : u \in U }
       \/ row.tenantId \notin TenantIds
    THEN [threw |-> TRUE,  S |-> S]
    ELSE [threw |-> FALSE, S |-> S \cup {row}]

prisma_session_create(S, U, row) ==
    IF \/ prisma_session_findUnique(S, row.token) # {}
       \/ row.userId \notin { u.id : u \in U }
       \/ row.tenantId \notin TenantIds
    THEN [threw |-> TRUE,  S |-> S]
    ELSE [threw |-> FALSE, S |-> S \cup {row}]

\* prisma.user.findUnique({ where: { id } }): not filtered by tenant
prisma_user_findUnique(U, id) == { u \in U : u.id = id }

\* prisma.user.create on a table without the unique (email, tenantId)
prisma_user_create_noUnique(U, row) ==
    IF row.tenantId \notin TenantIds
    THEN [threw |-> TRUE,  U |-> U]
    ELSE [threw |-> FALSE, U |-> U \cup {row}]

\* prisma.user.create with email unique on its own, across tenants
prisma_user_create_emailUnique(U, row) ==
    IF \/ \E u \in U : u.email = row.email
       \/ row.tenantId \notin TenantIds
    THEN [threw |-> TRUE,  U |-> U]
    ELSE [threw |-> FALSE, U |-> U \cup {row}]

\* prisma.user.create({ data }): throws on a constraint violation
prisma_user_create(U, row) ==
    IF \/ \E u \in U : u.email = row.email /\ u.tenantId = row.tenantId
       \/ row.tenantId \notin TenantIds
    THEN [threw |-> TRUE,  U |-> U]
    ELSE [threw |-> FALSE, U |-> U \cup {row}]

\* ------------------------------------------------------------ lib/tenant.ts
\* getTenantBySubdomain: lookup of the normalised subdomain
\* prisma.tenant.findUnique({ where: { subdomain } }): the rows found, or an
\* error when the database cannot be reached
prisma_tenant_findUnique(subdomain, fails) ==
    IF fails THEN [threw |-> TRUE, found |-> {}]
    ELSE [threw |-> FALSE,
          found |-> { t \in TenantTable : t.subdomain = subdomain }]

\* getTenantBySubdomain without its try/catch
getTenantBySubdomain_rethrows(subdomain, fails) ==
    LET r == prisma_tenant_findUnique(trim(toLowerCase(subdomain)), fails)
    IN  IF r.threw
        THEN [threw |-> TRUE, logged |-> FALSE, tenant |-> NullTenant]
        ELSE [threw |-> FALSE, logged |-> FALSE,
              tenant |-> IF r.found = {} THEN NullTenant
                         ELSE CHOOSE t \in r.found : TRUE]

\* getTenantBySubdomain looking up the subdomain as it was given
getTenantBySubdomain_asGiven(subdomain, fails) ==
    LET r == prisma_tenant_findUnique(subdomain, fails)
    IN  IF r.threw
        THEN [threw |-> FALSE, logged |-> TRUE, tenant |-> NullTenant]
        ELSE [threw |-> FALSE, logged |-> FALSE,
              tenant |-> IF r.found = {} THEN NullTenant
                         ELSE CHOOSE t \in r.found : TRUE]

\* getTenantBySubdomain with the outcome of the database call as an input
getTenantBySubdomain_try(subdomain, fails) ==
    LET r == prisma_tenant_findUnique(trim(toLowerCase(subdomain)), fails)
    IN  IF r.threw
        THEN [threw |-> FALSE, logged |-> TRUE, tenant |-> NullTenant]
        ELSE [threw |-> FALSE, logged |-> FALSE,
              tenant |-> IF r.found = {} THEN NullTenant
                         ELSE CHOOSE t \in r.found : TRUE]

\* getTenantBySubdomain, the database being reachable
getTenantBySubdomain(subdomain) ==
    getTenantBySubdomain_try(subdomain, FALSE).tenant

\* getTenantFromRequest: the tenant named by the x-tenant-subdomain header
getTenantFromRequest(header) ==
    IF header = <<>> THEN NullTenant ELSE getTenantBySubdomain(header)

\* ----------------------------------------------------------- lib/session.ts
\* createSession with the lifetime subtracted instead of added
createSession_pastExpiry(S, U, t, userId, tenantId, token) ==
    LET row == [userId |-> userId, tenantId |-> tenantId, token |-> token,
                expiresAt |-> t - SESSION_EXPIRATION_DAYS]
        r   == prisma_session_create(S, U, row)
    IN  [threw |-> r.threw, S |-> r.S,
         token |-> IF r.threw THEN NoToken ELSE token]

\* createSession: a row that expires SESSION_EXPIRATION_DAYS from now
createSession(S, U, t, userId, tenantId, token) ==
    LET row == [userId |-> userId, tenantId |-> tenantId, token |-> token,
                expiresAt |-> t + SESSION_EXPIRATION_DAYS]
        r   == prisma_session_create(S, U, row)
    IN  [threw |-> r.threw, S |-> r.S,
         token |-> IF r.threw THEN NoToken ELSE token]

\* deleteSession without its try/catch: the store's error reaches the caller
deleteSession_rethrows(S, token) ==
    LET r == prisma_session_delete(S, token)
    IN  [threw |-> r.threw, logged |-> FALSE, S |-> r.S]

\* deleteSession: the store's error for a missing row is caught and logged
\* deleteSession deleting every session of the token's user
deleteSession_wholeUser(S, token) ==
    LET r == prisma_session_delete(S, token)
        owners == { s.userId : s \in prisma_session_findUnique(S, token) }
    IN  [threw |-> FALSE, logged |-> r.threw,
         S |-> { s \in r.S : s.userId \notin owners }]

deleteSession(S, token) ==
    LET r == prisma_session_delete(S, token)
    IN  [threw |-> FALSE, logged |-> r.threw, S |-> r.S]

\* getSession with one of its checks changed: "tenant" drops the tenant
\* comparison, "lte" expires a session at expiresAt <= now, "keep" returns
\* null for an expired session without deleting it
getSession_variant(S, t, token, tenantId, variant) ==
    IF token = NoToken THEN [res |-> NullSession, S |-> S]
    ELSE LET found == prisma_session_findUnique(S, token) IN
         IF found = {} THEN [res |-> NullSession, S |-> S]
         ELSE LET session == CHOOSE s \in found : TRUE IN
              IF \/ session.expiresAt < t
                 \/ variant = "lte" /\ session.expiresAt = t
              THEN [res |-> NullSession,
                    S |-> IF variant = "keep" THEN S
                          ELSE deleteSession(S, token).S]
              ELSE IF /\ variant # "tenant"
                      /\ tenantId # NoTenant /\ session.tenantId # tenantId
              THEN [res |-> NullSession, S |-> S]
              ELSE [res |-> [ok |-> TRUE, userId |-> session.userId,
                             tenantId |-> session.tenantId,
                             token |-> session.token],
                    S |-> S]

getSession_noTenantCheck(S, t, token, tenantId) ==
    getSession_variant(S, t, token, tenantId, "tenant")

getSession_lte(S, t, token, tenantId) ==
    getSession_variant(S, t, token, tenantId, "lte")

getSession_keepsExpired(S, t, token, tenantId) ==
    getSession_variant(S, t, token, tenantId, "keep")

\* getSession: validate the cookie's token, optionally against a tenant
\* getSession deleting a session presented to another tenant
getSession_revokesOnMismatch(S, t, token, tenantId) ==
    IF token = NoToken THEN [res |-> NullSession, S |-> S]
    ELSE LET found == prisma_session_findUnique(S, token) IN
         IF found = {} THEN [res |-> NullSession, S |-> S]
         ELSE LET session == CHOOSE s \in found : TRUE IN
              IF session.expiresAt < t
              THEN [res |-> NullSession, S |-> deleteSession(S, token).S]
              ELSE IF tenantId # NoTenant /\ session.tenantId # tenantId
              THEN [res |-> NullSession, S |-> deleteSession(S, token).S]
              ELSE [res |-> [ok |-> TRUE, userId |-> session.userId,
                             tenantId |-> session.tenantId,
                             token |-> session.token],
                    S |-> S]

\* getSession renewing the expiry date of the session it accepts
getSession_slidingExpiry(S, t, token, tenantId) ==
    IF token = NoToken THEN [res |-> NullSession, S |-> S]
    ELSE LET found == prisma_session_findUnique(S, token) IN
         IF found = {} THEN [res |-> NullSession, S |-> S]
         ELSE LET session == CHOOSE s \in found : TRUE IN
              IF session.expiresAt < t
              THEN [res |-> NullSession, S |-> deleteSession(S, token).S]
              ELSE IF tenantId # NoTenant /\ session.tenantId # tenantId
              THEN [res |-> NullSession, S |-> S]
              ELSE [res |-> [ok |-> TRUE, userId |-> session.userId,
                             tenantId |-> session.tenantId,
                             token |-> session.token],
                    S |-> (S \ found) \cup
                          { [session EXCEPT
                               !.expiresAt = t + SESSION_EXPIRATION_DAYS] }]

getSession(S, t, token, tenantId) ==
    IF token = NoToken THEN [res |-> NullSession, S |-> S]
    ELSE LET found == prisma_session_findUnique(S, token) IN
         IF found = {} THEN [res |-> NullSession, S |-> S]
         ELSE LET session == CHOOSE s \in found : TRUE IN
              IF session.expiresAt < t
              THEN [res |-> NullSession, S |-> deleteSession(S, token).S]
              ELSE IF tenantId # NoTenant /\ session.tenantId # tenantId
              THEN [res |-> NullSession, S |-> S]
              ELSE [res |-> [ok |-> TRUE, userId |-> session.userId,
                             tenantId |-> session.tenantId,
                             token |-> session.token],
                    S |-> S]

\* deleteCurrentSession: delete the cookie's session, clear the cookie; an
\* error raised by deleteSession would be caught before the cookie is cleared
deleteCurrentSession(S, token) ==
    IF token # NoToken
    THEN LET d == deleteSession(S, token)
         IN  [S |-> d.S, cleared |-> ~d.threw]
    ELSE [S |-> S, cleared |-> TRUE]

\* getSessionUser without the comparison of the user's tenant
getSessionUser_noUserTenantCheck(U, S, t, token, tenantId) ==
    LET g == getSession(S, t, token, tenantId) IN
    IF ~g.res.ok THEN [user |-> NullUserRow, S |-> g.S]
    ELSE LET found == prisma_user_findUnique(U, g.res.userId) IN
         IF found = {} THEN [user |-> NullUserRow, S |-> g.S]
         ELSE [user |-> CHOOSE u \in found : TRUE, S |-> g.S]

\* getSessionUser: the session's user, if it belongs to the tenant
getSessionUser(U, S, t, token, tenantId) ==
    LET g == getSession(S, t, token, tenantId) IN
    IF ~g.res.ok THEN [user |-> NullUserRow, S |-> g.S]
    ELSE LET found == prisma_user_findUnique(U, g.res.userId) IN
         IF found = {} THEN [user |-> NullUserRow, S |-> g.S]
         ELSE LET user == CHOOSE u \in found : TRUE IN
              IF user.tenantId # tenantId
              THEN [user |-> NullUserRow, S |-> g.S]
              ELSE [user |-> user, S |-> g.S]

\* cleanupExpiredSessions with "lte" in place of "lt"
cleanupExpiredSessions_lte(S, t) ==
    LET del == { s \in S : s.expiresAt <= t }
    IN  [S |-> S \ del, count |-> Cardinality(del)]

\* cleanupExpiredSessions: bulk delete of the expired rows, all tenants
cleanupExpiredSessions(S, t) ==
    LET del == { s \in S : s.expiresAt < t }
    IN  [S |-> S \ del, count |-> Cardinality(del)]

\* createSession up to its await: the token and the expiry date are chosen
createSessionRow(t, userId, tenantId, token) ==
    [userId |-> userId, tenantId |-> tenantId, token |-> token,
     expiresAt |-> t + SESSION_EXPIRATION_DAYS]

\* createSession from its await on: the row is inserted
createSessionInsert(S, U, row) ==
    LET r == prisma_session_create(S, U, row)
    IN  [threw |-> r.threw, S |-> r.S,
         token |-> IF r.threw THEN NoToken ELSE row.token]

\* getSession up to the answer of findUnique: the row read, if any
getSessionFind(S, token) ==
    IF token = NoToken THEN {} ELSE prisma_session_findUnique(S, token)

\* getSession after findUnique, letting the error of the delete out
getSessionCheck_uncaught(S, t, session, tenantId) ==
    IF session.expiresAt < t
    THEN LET d == prisma_session_delete(S, session.token)
         IN  [res |-> NullSession, S |-> d.S, threw |-> d.threw,
              logged |-> FALSE]
    ELSE IF tenantId # NoTenant /\ session.tenantId # tenantId
    THEN [res |-> NullSession, S |-> S, threw |-> FALSE, logged |-> FALSE]
    ELSE [res |-> [ok |-> TRUE, userId |-> session.userId,
                   tenantId |-> session.tenantId, token |-> session.token],
          S |-> S, threw |-> FALSE, logged |-> FALSE]

\* getSession after findUnique, on the row it read: t is the time of the
\* expiry test, S the table at that time
getSessionCheck(S, t, session, tenantId) ==
    IF session.expiresAt < t
    THEN LET d == deleteSession(S, session.token)
         IN  [res |-> NullSession, S |-> d.S, threw |-> FALSE,
              logged |-> d.threw \/ d.logged]
    ELSE IF tenantId # NoTenant /\ session.tenantId # tenantId
    THEN [res |-> NullSession, S |-> S, threw |-> FALSE, logged |-> FALSE]
    ELSE [res |-> [ok |-> TRUE, userId |-> session.userId,
                   tenantId |-> session.tenantId, token |-> session.token],
          S |-> S, threw |-> FALSE, logged |-> FALSE]

\* createSession when prisma.session.create may fail for want of the
\* database: the error leaves createSession, nothing is stored
createSession_try(S, U, t, userId, tenantId, token, fails) ==
    IF fails THEN [threw |-> TRUE, S |-> S, token |-> NoToken]
    ELSE createSession(S, U, t, userId, tenantId, token)

\* deleteSession when prisma.session.delete may fail for want of the
\* database: the error is caught like the one for a missing row
deleteSession_try(S, token, fails) ==
    IF fails THEN [threw |-> FALSE, logged |-> TRUE, S |-> S]
    ELSE deleteSession(S, token)

\* -------------------------------------------------------------- lib/auth.ts
\* getAuthenticatedUser: tenant from the request, then the session's user
getAuthenticatedUser(U, S, t, header, token) ==
    LET tenant == getTenantFromRequest(header) IN
    IF tenant = NullTenant THEN [user |-> NullUserRow, S |-> S]
    ELSE getSessionUser(U, S, t, token, tenant.id)

\* the database calls of getSession, in their order
getSession_calls(S, t, token) ==
    IF token = NoToken THEN <<>>
    ELSE IF \E s \in prisma_session_findUnique(S, token) : s.expiresAt < t
    THEN <<"session.findUnique", "session.delete">>
    ELSE <<"session.findUnique">>

\* the database calls of getTenantFromRequest
getTenantFromRequest_calls(header) ==
    IF header = <<>> THEN <<>> ELSE <<"tenant.findUnique">>

\* getAuthenticatedUser validating the session before it resolves the tenant
getAuthenticatedUser_sessionFirst(S, t, header, token) ==
    LET g      == getSession(S, t, token, NoTenant)
        tenant == getTenantFromRequest(header)
    IN  [tenantId |-> tenant.id,
         res |-> IF tenant = NullTenant \/ g.res.tenantId # tenant.id
                 THEN NullSession ELSE g.res,
         S |-> g.S,
         calls |-> getSession_calls(S, t, token)
                     \o getTenantFromRequest_calls(header)]

\* getAuthenticatedUser up to the answer of getSession, which getSessionUser
\* awaits first
getAuthenticatedUser_toSession(S, t, header, token) ==
    LET tenant == getTenantFromRequest(header) IN
    IF tenant = NullTenant
    THEN [tenantId |-> NoTenant, res |-> NullSession, S |-> S,
          calls |-> getTenantFromRequest_calls(header)]
    ELSE LET g == getSession(S, t, token, tenant.id)
         IN  [tenantId |-> tenant.id, res |-> g.res, S |-> g.S,
              calls |-> getTenantFromRequest_calls(header)
                          \o getSession_calls(S, t, token)]

\* getSessionUser after getSession, deleting a session it does not accept
getSessionUser_loadUser_revokes(U, S, session, tenantId) ==
    LET found == prisma_user_findUnique(U, session.userId)
        user  == IF found = {} THEN NullUserRow ELSE CHOOSE u \in found : TRUE
        ok    == found # {} /\ user.tenantId = tenantId
    IN  [user |-> IF ok THEN user ELSE NullUserRow,
         S |-> IF ok THEN S ELSE deleteSession(S, session.token).S,
         calls |-> <<"user.findUnique">>]

\* getSessionUser after getSession accepted the session: the user is loaded
getSessionUser_loadUser(U, S, session, tenantId) ==
    LET found == prisma_user_findUnique(U, session.userId) IN
    [user |-> IF found = {} THEN NullUserRow
              ELSE LET user == CHOOSE u \in found : TRUE IN
                   IF user.tenantId # tenantId THEN NullUserRow ELSE user,
     S |-> S,
     calls |-> <<"user.findUnique">>]

\* ---------------------------------------------------- lib/db.ts (facade)
\* dbUser.findByEmail matching on the email alone
dbUser_findByEmail_anyTenant(U, tenantId, email) ==
    { u \in U : u.email = email }

\* dbUser.findByEmail: exact match on the (email, tenantId) key
dbUser_findByEmail(U, tenantId, email) ==
    { u \in U : u.email = email /\ u.tenantId = tenantId }

\* dbUser.create: the row is created with the tenant attached
dbUser_create(U, tenantId, id, email, password) ==
    LET row == [id |-> id, email |-> email, password |-> password,
                tenantId |-> tenantId]
        r   == prisma_user_create(U, row)
    IN  [threw |-> r.threw, U |-> r.U,
         user |-> IF r.threw THEN NullUserRow ELSE row]

\* dbUser.count without the tenant filter
dbUser_count_allTenants(U, tenantId) ==
    Cardinality(U)

\* dbUser.count(tenantId)
dbUser_count(U, tenantId) ==
    Cardinality({ u \in U : u.tenantId = tenantId })

\* dbSession.count(tenantId, { where: { expiresAt: { gt: t } } })
dbSession_count_gt(S, tenantId, t) ==
    Cardinality({ s \in S : s.tenantId = tenantId /\ s.expiresAt > t })

\* dbSession.deleteByUserId matching on the userId alone
dbSession_deleteByUserId_anyTenant(S, tenantId, userId) ==
    LET del == { s \in S : s.userId = userId }
    IN  [S |-> S \ del, count |-> Cardinality(del)]

\* dbSession.deleteByUserId: deleteMany on userId and tenantId
dbSession_deleteByUserId(S, tenantId, userId) ==
    LET del == { s \in S : s.userId = userId /\ s.tenantId = tenantId }
    IN  [S |-> S \ del, count |-> Cardinality(del)]

\* dbOrgSettings.get: the settings document of the tenant, or "null"
dbOrgSettings_get(O, tenantId) ==
    LET found == { o \in O : o.tenantId = tenantId }
    IN  IF found = {} THEN "null" ELSE (CHOOSE o \in found : TRUE).settings

\* a where clause is an object of equality filters: the fields it names
NoWhere == [f \in {} |-> 0]

\* { ...a, ...b }: the members of both, b's value where both have one
Spread(a, b) ==
    [f \in DOMAIN a \cup DOMAIN b |-> IF f \in DOMAIN b THEN b[f] ELSE a[f]]

\* a row passes a where clause when it has the value of every field named
Matches(row, where) == \A f \in DOMAIN where : row[f] = where[f]

prisma_user_findMany(U, where) == { u \in U : Matches(u, where) }

prisma_session_findMany(S, where) == { x \in S : Matches(x, where) }

\* updateMany: every matching row takes the data; the statement fails as a
\* whole when two rows would share (email, tenantId)
prisma_user_updateMany(U, where, data) ==
    LET hit == prisma_user_findMany(U, where)
        new == (U \ hit) \cup { Spread(u, data) : u \in hit }
    IN  IF \/ Cardinality(new) # Cardinality(U)
           \/ \E u1, u2 \in new : /\ u1 # u2 /\ u1.email = u2.email
                                   /\ u1.tenantId = u2.tenantId
        THEN [threw |-> TRUE,  U |-> U, count |-> 0]
        ELSE [threw |-> FALSE, U |-> new, count |-> Cardinality(hit)]

\* deleteMany on User: sessions of a deleted user go with it when the
\* foreign key cascades, otherwise the statement fails
prisma_user_deleteMany(U, S, where, cascade) ==
    LET hit  == prisma_user_findMany(U, where)
        refs == { x \in S : \E u \in hit : x.userId = u.id }
    IN  IF refs # {} /\ ~cascade
        THEN [threw |-> TRUE,  U |-> U, S |-> S, count |-> 0]
        ELSE [threw |-> FALSE, U |-> U \ hit, S |-> S \ refs,
              count |-> Cardinality(hit)]

prisma_session_deleteMany(S, where) ==
    LET hit == prisma_session_findMany(S, where)
    IN  [threw |-> FALSE, S |-> S \ hit, count |-> Cardinality(hit)]

dbUser_findMany(U, tenantId, where) ==
    prisma_user_findMany(U, Spread(where, [tenantId |-> tenantId]))

\* dbUser.count with a where option
dbUser_count_where(U, tenantId, where) ==
    Cardinality(prisma_user_findMany(U, Spread(where, [tenantId |-> tenantId])))

\* dbUser.update selecting the row by id alone
dbUser_update_byIdOnly(U, tenantId, userId, data) ==
    prisma_user_updateMany(U, [id |-> userId], data)

dbUser_update(U, tenantId, userId, data) ==
    prisma_user_updateMany(U, [id |-> userId, tenantId |-> tenantId], data)

dbUser_delete(U, S, tenantId, userId, cascade) ==
    prisma_user_deleteMany(U, S, [id |-> userId, tenantId |-> tenantId],
                           cascade)

dbSession_findMany(S, tenantId, where) ==
    prisma_session_findMany(S, Spread(where, [tenantId |-> tenantId]))

\* dbSession.count with a where option
dbSession_count_where(S, tenantId, where) ==
    Cardinality(prisma_session_findMany(S,
                    Spread(where, [tenantId |-> tenantId])))

dbSession_deleteByToken(S, tenantId, token) ==
    prisma_session_deleteMany(S, [token |-> token, tenantId |-> tenantId])

\* withTenant letting the caller's tenantId win: { tenantId, ...where }
withTenant_whereWins(tenantId, where) ==
    Spread([tenantId |-> tenantId], where)

withTenant(tenantId, where) == Spread(where, [tenantId |-> tenantId])

\* createTenantScope(tenantId).user / .session / .orgSettings
scope_user_findUnique(U, tenantId, where) ==
    prisma_user_findMany(U, withTenant(tenantId, where))

scope_user_findMany(U, tenantId, where) ==
    prisma_user_findMany(U, withTenant(tenantId, where))

scope_session_findUnique(S, tenantId, where) ==
    prisma_session_findMany(S, withTenant(tenantId, where))

scope_session_findMany(S, tenantId, where) ==
    prisma_session_findMany(S, withTenant(tenantId, where))

scope_orgSettings_findUnique(O, tenantId) == dbOrgSettings_get(O, tenantId)

\* ---------------------------------------------------------- lib/password.ts
hashPassword(password) == <<"$">> \o password

comparePassword(password, digest) == digest = hashPassword(password)

\* ------------------------------------------------------------ what is seen
\* The record a call leaves in "last": its inputs and what its caller gets.
Blank ==
    [op |-> "init",
     reqTenant |-> NoTenant,   \* tenant the request resolved to / was given
     token |-> NoToken,        \* token the request carried
     status |-> 0,             \* HTTP status (0: not an HTTP call)
     error |-> "",             \* the "error" member of the JSON answer
     userId |-> NoUser,        \* user in the result
     tenantId |-> NoTenant,    \* tenant in the result
     cookie |-> NoToken,       \* session_token cookie set by the call
     cleared |-> FALSE,        \* session_token cookie deleted by the call
     count |-> 0,              \* rows affected
     threw |-> FALSE,          \* the call raised an error to its caller
     logged |-> FALSE,         \* an error was caught and logged
     totalUsers |-> 0, activeSessions |-> 0, settings |-> "null",
     header |-> <<>>,          \* x-tenant-subdomain as the handler read it
     host |-> <<>>,            \* the Host header extractSubdomain was given
     subdomain |-> <<>>,       \* what extractSubdomain returned
     where |-> <<>>,           \* the where clause (or data) the caller gave
     scoped |-> <<>>,          \* the where clause withTenant returned
     rows |-> {},              \* the rows a read returned
     calls |-> <<>>]           \* the database calls made, in their order

\* ------------------------------------------------------------ route handlers
\* /^[^\s@]+@[^\s@]+\.[^\s@]+$/
emailRegexTest(s) ==
    \E i \in 1..Len(s), j \in 1..Len(s) :
        /\ s[i] = "@" /\ s[j] = "."
        /\ i >= 2 /\ j >= i + 2 /\ j <= Len(s) - 1
        /\ \A k \in 1..Len(s) : ~IsSpace(s[k]) /\ (k # i => s[k] # "@")

\* signup that answers 201 with a cookie but stores no session
signupPOST_noSession(U, S, t, header, email, password, uid, token) ==
    LET tenant == getTenantFromRequest(header)
        R      == [Blank EXCEPT !.op = "signup", !.reqTenant = tenant.id]
        same   == [U |-> U, S |-> S, usedUid |-> FALSE, usedToken |-> FALSE,
                   resp |-> R]
    IN
    IF tenant = NullTenant
    THEN [same EXCEPT !.resp = [R EXCEPT !.status = 404,
                    !.error = "Tenant not found"]]
    ELSE IF email = <<>> \/ password = <<>>
    THEN [same EXCEPT !.resp = [R EXCEPT !.status = 400,
                    !.error = "Email and password are required"]]
    ELSE IF ~emailRegexTest(email)
    THEN [same EXCEPT !.resp = [R EXCEPT !.status = 400,
                    !.error = "Invalid email format"]]
    ELSE IF Len(password) < 6
    THEN [same EXCEPT !.resp = [R EXCEPT !.status = 400,
                    !.error = "Password must be at least 6 characters long"]]
    ELSE IF dbUser_findByEmail(U, tenant.id, email) # {}
    THEN [same EXCEPT !.resp = [R EXCEPT !.status = 409,
                    !.error = "User with this email already exists"]]
    ELSE LET c == dbUser_create(U, tenant.id, uid, trim(toLowerCase(email)),
                                hashPassword(password)) IN
         IF c.threw
         THEN [same EXCEPT !.resp = [R EXCEPT !.status = 500,
                    !.error = "Internal server error", !.logged = TRUE]]
         ELSE LET cs == createSession(S, c.U, t, c.user.id, tenant.id, token) IN
              IF cs.threw
              THEN [U |-> c.U, S |-> cs.S, usedUid |-> TRUE,
                    usedToken |-> FALSE,
                    resp |-> [R EXCEPT !.status = 500,
                    !.error = "Internal server error", !.logged = TRUE]]
              ELSE [U |-> c.U, S |-> S, usedUid |-> TRUE,
                    usedToken |-> TRUE,
                    resp |-> [R EXCEPT !.status = 201, !.userId = c.user.id,
                                       !.cookie = cs.token]]

\* POST /api/auth/signup
\* signupPOST refusing a password of six characters
signupPOST_sixTooShort(U, S, t, header, email, password, uid, token) ==
    LET tenant == getTenantFromRequest(header)
        R      == [Blank EXCEPT !.op = "signup", !.reqTenant = tenant.id]
        same   == [U |-> U, S |-> S, usedUid |-> FALSE, usedToken |-> FALSE,
                   resp |-> R]
    IN
    IF tenant = NullTenant
    THEN [same EXCEPT !.resp = [R EXCEPT !.status = 404,
                    !.error = "Tenant not found"]]
    ELSE IF email = <<>> \/ password = <<>>
    THEN [same EXCEPT !.resp = [R EXCEPT !.status = 400,
                    !.error = "Email and password are required"]]
    ELSE IF ~emailRegexTest(email)
    THEN [same EXCEPT !.resp = [R EXCEPT !.status = 400,
                    !.error = "Invalid email format"]]
    ELSE IF Len(password) <= 6
    THEN [same EXCEPT !.resp = [R EXCEPT !.status = 400,
                    !.error = "Password must be at least 6 characters long"]]
    ELSE IF dbUser_findByEmail(U, tenant.id, email) # {}
    THEN [same EXCEPT !.resp = [R EXCEPT !.status = 409,
                    !.error = "User with this email already exists"]]
    ELSE LET c == dbUser_create(U, tenant.id, uid, trim(toLowerCase(email)),
                                hashPassword(password)) IN
         IF c.threw
         THEN [same EXCEPT !.resp = [R EXCEPT !.status = 500,
                    !.error = "Internal server error", !.logged = TRUE]]
         ELSE LET cs == createSession(S, c.U, t, c.user.id, tenant.id, token) IN
              IF cs.threw
              THEN [U |-> c.U, S |-> cs.S, usedUid |-> TRUE,
                    usedToken |-> FALSE,
                    resp |-> [R EXCEPT !.status = 500,
                    !.error = "Internal server error", !.logged = TRUE]]
              ELSE [U |-> c.U, S |-> cs.S, usedUid |-> TRUE,
                    usedToken |-> TRUE,
                    resp |-> [R EXCEPT !.status = 201, !.userId = c.user.id,
                                       !.cookie = cs.token]]

signupPOST(U, S, t, header, email, password, uid, token) ==
    LET tenant == getTenantFromRequest(header)
        R      == [Blank EXCEPT !.op = "signup", !.reqTenant = tenant.id]
        same   == [U |-> U, S |-> S, usedUid |-> FALSE, usedToken |-> FALSE,
                   resp |-> R]
    IN
    IF tenant = NullTenant
    THEN [same EXCEPT !.resp = [R EXCEPT !.status = 404,
                    !.error = "Tenant not found"]]
    ELSE IF email = <<>> \/ password = <<>>
    THEN [same EXCEPT !.resp = [R EXCEPT !.status = 400,
                    !.error = "Email and password are required"]]
    ELSE IF ~emailRegexTest(email)
    THEN [same EXCEPT !.resp = [R EXCEPT !.status = 400,
                    !.error = "Invalid email format"]]
    ELSE IF Len(password) < 6
    THEN [same EXCEPT !.resp = [R EXCEPT !.status = 400,
                    !.error = "Password must be at least 6 characters long"]]
    ELSE IF dbUser_findByEmail(U, tenant.id, email) # {}
    THEN [same EXCEPT !.resp = [R EXCEPT !.status = 409,
                    !.error = "User with this email already exists"]]
    ELSE LET c == dbUser_create(U, tenant.id, uid, trim(toLowerCase(email)),
                                hashPassword(password)) IN
         IF c.threw
         THEN [same EXCEPT !.resp = [R EXCEPT !.status = 500,
                    !.error = "Internal server error", !.logged = TRUE]]
         ELSE LET cs == createSession(S, c.U, t, c.user.id, tenant.id, token) IN
              IF cs.threw
              THEN [U |-> c.U, S |-> cs.S, usedUid |-> TRUE,
                    usedToken |-> FALSE,
                    resp |-> [R EXCEPT !.status = 500,
                    !.error = "Internal server error", !.logged = TRUE]]
              ELSE [U |-> c.U, S |-> cs.S, usedUid |-> TRUE,
                    usedToken |-> TRUE,
                    resp |-> [R EXCEPT !.status = 201, !.userId = c.user.id,
                                       !.cookie = cs.token]]

\* The signup handler between its awaits, for requests handled at once.
\* signupCheck: from the tenant lookup to the duplicate check
signupCheck(U, header, email, password) ==
    LET tenant == getTenantFromRequest(header)
        R      == [Blank EXCEPT !.op = "signup", !.reqTenant = tenant.id]
    IN
    IF tenant = NullTenant
    THEN [pass |-> FALSE, resp |-> [R EXCEPT !.status = 404,
                    !.error = "Tenant not found"]]
    ELSE IF email = <<>> \/ password = <<>>
    THEN [pass |-> FALSE, resp |-> [R EXCEPT !.status = 400,
                    !.error = "Email and password are required"]]
    ELSE IF ~emailRegexTest(email)
    THEN [pass |-> FALSE, resp |-> [R EXCEPT !.status = 400,
                    !.error = "Invalid email format"]]
    ELSE IF Len(password) < 6
    THEN [pass |-> FALSE, resp |-> [R EXCEPT !.status = 400,
                    !.error = "Password must be at least 6 characters long"]]
    ELSE IF dbUser_findByEmail(U, tenant.id, email) # {}
    THEN [pass |-> FALSE, resp |-> [R EXCEPT !.status = 409,
                    !.error = "User with this email already exists"]]
    ELSE [pass |-> TRUE, resp |-> R]

\* signupCreate: hash the password and insert the user
signupCreate(U, tenantId, email, password, uid) ==
    LET c == dbUser_create(U, tenantId, uid, trim(toLowerCase(email)),
                           hashPassword(password))
        R == [Blank EXCEPT !.op = "signup", !.reqTenant = tenantId]
    IN  [threw |-> c.threw, U |-> c.U, user |-> c.user,
         resp |-> [R EXCEPT !.status = 500,
                            !.error = "Internal server error",
                            !.logged = TRUE]]

\* signupSession: create the session and answer
signupSession(S, U, t, userId, tenantId, token) ==
    LET cs == createSession(S, U, t, userId, tenantId, token)
        R  == [Blank EXCEPT !.op = "signup", !.reqTenant = tenantId]
    IN  [threw |-> cs.threw, S |-> cs.S,
         resp |-> IF cs.threw
                  THEN [R EXCEPT !.status = 500,
                                 !.error = "Internal server error",
                                 !.logged = TRUE]
                  ELSE [R EXCEPT !.status = 201, !.userId = userId,
                                 !.cookie = cs.token]]

\* login answering "no such user" apart from "wrong password"
loginPOST_revealsUnknownUser(U, S, t, header, email, password, token) ==
    LET tenant == getTenantFromRequest(header)
        R      == [Blank EXCEPT !.op = "login", !.reqTenant = tenant.id]
        same   == [S |-> S, usedToken |-> FALSE, resp |-> R]
    IN
    IF tenant = NullTenant
    THEN [same EXCEPT !.resp = [R EXCEPT !.status = 404,
                    !.error = "Tenant not found"]]
    ELSE IF email = <<>> \/ password = <<>>
    THEN [same EXCEPT !.resp = [R EXCEPT !.status = 400,
                    !.error = "Email and password are required"]]
    ELSE LET found == dbUser_findByEmail(U, tenant.id, email) IN
         IF found = {}
         THEN [same EXCEPT !.resp = [R EXCEPT !.status = 404,
                    !.error = "User not found"]]
         ELSE LET user == CHOOSE u \in found : TRUE IN
              IF ~comparePassword(password, user.password)
              THEN [same EXCEPT !.resp = [R EXCEPT !.status = 401,
                    !.error = "Invalid email or password"]]
              ELSE LET cs == createSession(S, U, t, user.id, tenant.id, token)
                   IN
                   IF cs.threw
                   THEN [same EXCEPT
                           !.resp = [R EXCEPT !.status = 500,
                    !.error = "Internal server error", !.logged = TRUE]]
                   ELSE [S |-> cs.S, usedToken |-> TRUE,
                         resp |-> [R EXCEPT !.status = 200,
                                            !.userId = user.id,
                                            !.cookie = cs.token]]

\* POST /api/auth/login
loginPOST(U, S, t, header, email, password, token) ==
    LET tenant == getTenantFromRequest(header)
        R      == [Blank EXCEPT !.op = "login", !.reqTenant = tenant.id]
        same   == [S |-> S, usedToken |-> FALSE, resp |-> R]
    IN
    IF tenant = NullTenant
    THEN [same EXCEPT !.resp = [R EXCEPT !.status = 404,
                    !.error = "Tenant not found"]]
    ELSE IF email = <<>> \/ password = <<>>
    THEN [same EXCEPT !.resp = [R EXCEPT !.status = 400,
                    !.error = "Email and password are required"]]
    ELSE LET found == dbUser_findByEmail(U, tenant.id, email) IN
         IF found = {}
         THEN [same EXCEPT !.resp = [R EXCEPT !.status = 401,
                    !.error = "Invalid email or password"]]
         ELSE LET user == CHOOSE u \in found : TRUE IN
              IF ~comparePassword(password, user.password)
              THEN [same EXCEPT !.resp = [R EXCEPT !.status = 401,
                    !.error = "Invalid email or password"]]
              ELSE LET cs == createSession(S, U, t, user.id, tenant.id, token)
                   IN
                   IF cs.threw
                   THEN [same EXCEPT
                           !.resp = [R EXCEPT !.status = 500,
                    !.error = "Internal server error", !.logged = TRUE]]
                   ELSE [S |-> cs.S, usedToken |-> TRUE,
                         resp |-> [R EXCEPT !.status = 200,
                                            !.userId = user.id,
                                            !.cookie = cs.token]]

\* POST /api/auth/logout (GET differs only in answering with a redirect)
logoutPOST(S, header, token) ==
    LET d == deleteCurrentSession(S, token)
    IN  [S |-> d.S,
         resp |-> [Blank EXCEPT !.op = "logout",
                                !.reqTenant = getTenantFromRequest(header).id,
                                !.token = token, !.status = 200,
                                !.count = Cardinality(S \ d.S),
                                !.cleared = d.cleared]]

\* the dashboard resolving the tenant before it asks for the user
dashboardGET_tenantFirst(U, S, O, t, header, token) ==
    LET a      == getAuthenticatedUser(U, S, t, header, token)
        tenant == getTenantFromRequest(header)
        R      == [Blank EXCEPT !.op = "dashboard", !.reqTenant = tenant.id,
                                !.token = token,
                                !.count = Cardinality(S \ a.S)]
    IN
    IF tenant = NullTenant
    THEN [S |-> a.S, resp |-> [R EXCEPT !.status = 404,
                    !.error = "Tenant not found"]]
    ELSE IF a.user = NullUserRow
    THEN [S |-> a.S, resp |-> [R EXCEPT !.status = 401,
                    !.error = "Unauthorized"]]
    ELSE [S |-> a.S,
          resp |-> [R EXCEPT !.status = 200, !.userId = a.user.id,
                      !.tenantId = tenant.id,
                      !.totalUsers = dbUser_count(U, tenant.id),
                      !.activeSessions = dbSession_count_gt(a.S, tenant.id, t),
                      !.settings = dbOrgSettings_get(O, tenant.id)]]

\* GET /api/dashboard
dashboardGET(U, S, O, t, header, token) ==
    LET a      == getAuthenticatedUser(U, S, t, header, token)
        tenant == getTenantFromRequest(header)
        R      == [Blank EXCEPT !.op = "dashboard", !.reqTenant = tenant.id,
                                !.token = token,
                                !.count = Cardinality(S \ a.S)]
    IN
    IF a.user = NullUserRow
    THEN [S |-> a.S, resp |-> [R EXCEPT !.status = 401,
                    !.error = "Unauthorized"]]
    ELSE IF tenant = NullTenant
    THEN [S |-> a.S, resp |-> [R EXCEPT !.status = 404,
                    !.error = "Tenant not found"]]
    ELSE [S |-> a.S,
          resp |-> [R EXCEPT !.status = 200, !.userId = a.user.id,
                      !.tenantId = tenant.id,
                      !.totalUsers = dbUser_count(U, tenant.id),
                      !.activeSessions = dbSession_count_gt(a.S, tenant.id, t),
                      !.settings = dbOrgSettings_get(O, tenant.id)]]

\* the signup handler when the insert of the session may fail
signupPOST_try(U, S, t, header, email, password, uid, token, fails) ==
    LET c == signupCheck(U, header, email, password)
        R == [Blank EXCEPT !.op = "signup",
                           !.reqTenant = getTenantFromRequest(header).id]
    IN
    IF ~c.pass
    THEN [U |-> U, S |-> S, usedUid |-> FALSE, usedToken |-> FALSE,
          resp |-> c.resp]
    ELSE LET cr == signupCreate(U, R.reqTenant, email, password, uid) IN
         IF cr.threw
         THEN [U |-> U, S |-> S, usedUid |-> FALSE, usedToken |-> FALSE,
               resp |-> cr.resp]
         ELSE LET cs == createSession_try(S, cr.U, t, cr.user.id,
                                          R.reqTenant, token, fails)
              IN  IF cs.threw
                  THEN [U |-> cr.U, S |-> cs.S, usedUid |-> TRUE,
                        usedToken |-> FALSE, resp |-> cr.resp]
                  ELSE [U |-> cr.U, S |-> cs.S, usedUid |-> TRUE,
                        usedToken |-> TRUE,
                        resp |-> [R EXCEPT !.status = 201,
                                           !.userId = cr.user.id,
                                           !.cookie = cs.token]]

\* the logout handler when the delete of the session may fail
logoutPOST_try(S, header, token, fails) ==
    LET d == IF token # NoToken
             THEN LET x == deleteSession_try(S, token, fails)
                  IN  [S |-> x.S, cleared |-> ~x.threw]
             ELSE [S |-> S, cleared |-> TRUE]
    IN  [S |-> d.S,
         resp |-> [Blank EXCEPT !.op = "logout",
                                !.reqTenant = getTenantFromRequest(header).id,
                                !.token = token, !.status = 200,
                                !.count = Cardinality(S \ d.S),
                                !.cleared = d.cleared]]

\* -------------------------------------------------------- lib/auth-server.ts
\* String.prototype.split with a one-character separator
RECURSIVE split(_, _)
split(s, sep) ==
    LET at == { k \in 1..Len(s) : s[k] = sep } IN
    IF at = {} THEN <<s>>
    ELSE LET i == CHOOSE k \in at : \A m \in at : k <= m
         IN  <<SubSeq(s, 1, i - 1)>> \o split(SubSeq(s, i + 1, Len(s)), sep)

LOCALHOST == <<"l", "o", "c", "a", "l", "h", "o", "s", "t">>
LOOPBACK  == <<"1", "2", "7", ".", "0", ".", "0", ".", "1">>

\* values of the Host request header
HostValues ==
    { <<>>,
      LOCALHOST \o <<":", "3">>,
      <<"a", ".">> \o LOCALHOST \o <<":", "3">>,
      <<"x", ".", "y">>,
      <<"A", ".", "x", ".", "y", ":", "3">>,
      <<"b", ".", "x", ".", "y">>,
      <<"c", ".", "x", ".", "y">> }

\* null as a result of extractSubdomain: not a string, unlike <<>> ("")
NullSubdomain == <<"null">>

\* !subdomain
Falsy(subdomain) == subdomain = NullSubdomain \/ subdomain = <<>>

\* extractSubdomain that takes a host of two labels to have a subdomain
extractSubdomain_twoLabels(hostname) ==
    LET hostWithoutPort == split(hostname, ":")[1] IN
    IF hostWithoutPort = LOCALHOST \/ hostWithoutPort = LOOPBACK
    THEN NullSubdomain
    ELSE LET parts == split(hostWithoutPort, ".") IN
         IF Len(parts) >= 2 THEN parts[1] ELSE NullSubdomain

\* extractSubdomain (auth-server.ts)
extractSubdomain(hostname) ==
    LET hostWithoutPort == split(hostname, ":")[1] IN
    IF hostWithoutPort = LOCALHOST \/ hostWithoutPort = LOOPBACK
    THEN NullSubdomain
    ELSE LET parts == split(hostWithoutPort, ".") IN
         IF Len(parts) >= 3 THEN parts[1] ELSE NullSubdomain

\* getServerAuthUser: the gate of the server components, from the Host header
getServerAuthUser(U, S, t, host, token) ==
    LET subdomain == extractSubdomain(host) IN
    IF Falsy(subdomain) THEN [user |-> NullUserRow, S |-> S]
    ELSE LET tenant == getTenantBySubdomain(subdomain) IN
         IF tenant = NullTenant THEN [user |-> NullUserRow, S |-> S]
         ELSE getSessionUser(U, S, t, token, tenant.id)

\* getServerAuthUser up to the answer of getSession
getServerAuthUser_toSession(S, t, host, token) ==
    LET subdomain == extractSubdomain(host) IN
    IF Falsy(subdomain)
    THEN [tenantId |-> NoTenant, res |-> NullSession, S |-> S,
          calls |-> <<>>]
    ELSE LET tenant == getTenantBySubdomain(subdomain) IN
         IF tenant = NullTenant
         THEN [tenantId |-> NoTenant, res |-> NullSession, S |-> S,
               calls |-> <<"tenant.findUnique">>]
         ELSE LET g == getSession(S, t, token, tenant.id)
              IN  [tenantId |-> tenant.id, res |-> g.res, S |-> g.S,
                   calls |-> <<"tenant.findUnique">>
                               \o getSession_calls(S, t, token)]

\* ------------------------------------------------------------ middleware.ts
\* extractSubdomain (middleware.ts): its own copy of the function
extractSubdomain_middleware(hostname) ==
    LET hostWithoutPort == split(hostname, ":")[1] IN
    IF hostWithoutPort = LOCALHOST \/ hostWithoutPort = LOOPBACK
    THEN NullSubdomain
    ELSE LET parts == split(hostWithoutPort, ".") IN
         IF Len(parts) >= 3 THEN parts[1] ELSE NullSubdomain

\* middleware: the value of x-tenant-subdomain in the forwarded request.
\* The client's headers are cloned; the header is set only when the Host has
\* a subdomain.
middleware(host, clientHeader) ==
    LET subdomain == extractSubdomain_middleware(host) IN
    IF ~Falsy(subdomain) THEN subdomain ELSE clientHeader

\* request paths
PATH_LOGIN ==
    <<"/", "a", "p", "i", "/", "a", "u", "t", "h", "/", "l", "o", "g", "i", "n">>
PATH_SIGNUP ==
    <<"/", "a", "p", "i", "/", "a", "u", "t", "h", "/", "s", "i", "g", "n", "u",
      "p">>
PATH_DASHBOARD_API ==
    <<"/", "a", "p", "i", "/", "d", "a", "s", "h", "b", "o", "a", "r", "d">>
PATH_DASHBOARD_PAGE == <<"/", "d", "a", "s", "h", "b", "o", "a", "r", "d">>

StartsWith(s, prefix) ==
    Len(s) >= Len(prefix) /\ SubSeq(s, 1, Len(prefix)) = prefix

\* config.matcher: '/((?!api|_next/static|_next/image|favicon.ico).*)'
matcher(path) ==
    /\ path # <<>> /\ Head(path) = "/"
    /\ \A prefix \in
          { <<"a", "p", "i">>,
            <<"_", "n", "e", "x", "t", "/", "s", "t", "a", "t", "i", "c">>,
            <<"_", "n", "e", "x", "t", "/", "i", "m", "a", "g", "e">>,
            <<"f", "a", "v", "i", "c", "o", "n", ".", "i", "c", "o">> } :
          ~StartsWith(Tail(path), prefix)

\* the x-tenant-subdomain header of the request as the route handler gets
\* it: through the middleware on the paths of the matcher, as sent otherwise
forwardedHeader(path, host, clientHeader) ==
    IF matcher(path) THEN middleware(host, clientHeader) ELSE clientHeader

\* Host headers of any shape: up to MaxPieces pieces put end to end
Pieces == { <<"a">>, <<".">>, <<":">>, LOCALHOST, LOOPBACK }

RECURSIVE Flatten(_)
Flatten(q) == IF q = <<>> THEN <<>> ELSE Head(q) \o Flatten(Tail(q))

Hosts == { Flatten(q) : q \in UNION { [1..n -> Pieces] : n \in 0..MaxPieces } }

\* ------------------------------------------------------------------ actions
Done(resp) == last' = resp

Signup(header, email, password) ==
    LET r == signupPOST(users, sessions, now, header, email, password,
                        nextUid, nextToken) IN
    /\ r.usedUid => nextUid <= MaxUsers
    /\ r.usedToken => nextToken <= MaxTokens
    /\ users' = r.U
    /\ sessions' = r.S
    /\ nextUid' = IF r.usedUid THEN nextUid + 1 ELSE nextUid
    /\ nextToken' = IF r.usedToken THEN nextToken + 1 ELSE nextToken
    /\ Done(r.resp)
    /\ UNCHANGED <<pending, orgSettings, now>>

Login(header, email, password) ==
    LET r == loginPOST(users, sessions, now, header, email, password,
                       nextToken) IN
    /\ r.usedToken => nextToken <= MaxTokens
    /\ sessions' = r.S
    /\ nextToken' = IF r.usedToken THEN nextToken + 1 ELSE nextToken
    /\ Done(r.resp)
    /\ UNCHANGED <<pending, users, orgSettings, now, nextUid>>

Logout(header, token) ==
    LET r == logoutPOST(sessions, header, token) IN
    /\ sessions' = r.S
    /\ Done(r.resp)
    /\ UNCHANGED <<pending, users, orgSettings, now, nextToken, nextUid>>

Dashboard(header, token) ==
    LET r == dashboardGET(users, sessions, orgSettings, now, header, token) IN
    /\ sessions' = r.S
    /\ Done(r.resp)
    /\ UNCHANGED <<pending, users, orgSettings, now, nextToken, nextUid>>

\* a server component calls getServerAuthUser()
ServerAuth(host, token) ==
    LET subdomain == extractSubdomain(host)
        tenant == IF Falsy(subdomain) THEN NullTenant
                  ELSE getTenantBySubdomain(subdomain)
        r == getServerAuthUser(users, sessions, now, host, token) IN
    /\ sessions' = r.S
    /\ Done([Blank EXCEPT !.op = "getServerAuthUser",
                          !.count = Cardinality(sessions \ r.S),
                          !.reqTenant = tenant.id, !.token = token,
                          !.userId = r.user.id, !.tenantId = r.user.tenantId])
    /\ UNCHANGED <<pending, users, orgSettings, now, nextToken, nextUid>>

\* getSession(tenantId) is called with the cookie "token"
GetSession(tenantId, token) ==
    LET r == getSession(sessions, now, token, tenantId) IN
    /\ sessions' = r.S
    /\ Done([Blank EXCEPT !.op = "getSession", !.reqTenant = tenantId,
                          !.count = Cardinality(sessions \ r.S),
                          !.token = token, !.userId = r.res.userId,
                          !.tenantId = r.res.tenantId])
    /\ UNCHANGED <<pending, users, orgSettings, now, nextToken, nextUid>>

\* getSessionUser(tenantId) is called with the cookie "token"
GetSessionUser(tenantId, token) ==
    LET r == getSessionUser(users, sessions, now, token, tenantId) IN
    /\ sessions' = r.S
    /\ Done([Blank EXCEPT !.op = "getSessionUser", !.reqTenant = tenantId,
                          !.count = Cardinality(sessions \ r.S),
                          !.token = token, !.userId = r.user.id,
                          !.tenantId = r.user.tenantId])
    /\ UNCHANGED <<pending, users, orgSettings, now, nextToken, nextUid>>

\* getAuthenticatedUser(request) is called
GetAuthenticatedUser(header, token) ==
    LET r == getAuthenticatedUser(users, sessions, now, header, token) IN
    /\ sessions' = r.S
    /\ Done([Blank EXCEPT !.op = "getAuthenticatedUser",
                          !.count = Cardinality(sessions \ r.S),
                          !.reqTenant = getTenantFromRequest(header).id,
                          !.token = token, !.userId = r.user.id,
                          !.tenantId = r.user.tenantId])
    /\ UNCHANGED <<pending, users, orgSettings, now, nextToken, nextUid>>

\* deleteSession(token) is called
DeleteSession(token) ==
    LET r == deleteSession(sessions, token) IN
    /\ sessions' = r.S
    /\ Done([Blank EXCEPT !.op = "deleteSession", !.token = token,
                          !.count = Cardinality(sessions \ r.S),
                          !.threw = r.threw, !.logged = r.logged])
    /\ UNCHANGED <<pending, users, orgSettings, now, nextToken, nextUid>>

\* createSession(userId, tenantId) is called
CreateSession(userId, tenantId) ==
    LET r == createSession(sessions, users, now, userId, tenantId, nextToken)
    IN
    /\ nextToken <= MaxTokens
    /\ sessions' = r.S
    /\ nextToken' = nextToken + 1
    /\ Done([Blank EXCEPT !.op = "createSession", !.reqTenant = tenantId,
                          !.userId = userId, !.cookie = r.token,
                          !.threw = r.threw])
    /\ UNCHANGED <<pending, users, orgSettings, now, nextUid>>

\* dbSession.deleteByUserId(tenantId, userId) is called
DbSessionDeleteByUserId(tenantId, userId) ==
    LET r == dbSession_deleteByUserId(sessions, tenantId, userId) IN
    /\ sessions' = r.S
    /\ Done([Blank EXCEPT !.op = "dbSession.deleteByUserId",
                          !.reqTenant = tenantId, !.userId = userId,
                          !.count = r.count])
    /\ UNCHANGED <<pending, users, orgSettings, now, nextToken, nextUid>>

\* the periodic job calls cleanupExpiredSessions()
Sweep ==
    LET r == cleanupExpiredSessions(sessions, now) IN
    /\ sessions' = r.S
    /\ Done([Blank EXCEPT !.op = "cleanupExpiredSessions", !.count = r.count])
    /\ UNCHANGED <<pending, users, orgSettings, now, nextToken, nextUid>>

\* time passes: the clock is read once per session lifetime, which gives
\* every order of an expiry and the clock (before, equal, after)
Tick ==
    /\ now + SESSION_EXPIRATION_DAYS <= MaxTime
    /\ now' = now + SESSION_EXPIRATION_DAYS
    /\ UNCHANGED <<pending, users, sessions, orgSettings, nextToken, nextUid,
                   last>>

Init ==
    /\ users = {}
    /\ sessions = {}
    /\ orgSettings = { [tenantId |-> "T1", settings |-> "s1"] }
    /\ now = 0
    /\ nextToken = 1
    /\ nextUid = 1
    /\ last = Blank
    /\ pending = [i \in Slots |-> Idle]

Next ==
    \/ \E h \in HeaderValues, b \in Bodies : Signup(h, b.email, b.password)
    \/ \E h \in HeaderValues, b \in Bodies : Login(h, b.email, b.password)
    \/ \E h \in HeaderValues, k \in Tokens \cup {NoToken} : Logout(h, k)
    \/ \E h \in HeaderValues, k \in Tokens \cup {NoToken} : Dashboard(h, k)
    \/ Sweep
    \/ Tick

Spec == Init /\ [][Next]_vars

\* The pages: server components, which resolve the tenant from the Host
\* header themselves, rendered for the sessions that signups created.
NextPages ==
    \/ \E h \in HeaderValues, b \in Bodies : Signup(h, b.email, b.password)
    \/ \E h \in HostValues, k \in Tokens \cup {NoToken} : ServerAuth(h, k)
    \/ Tick

SpecPages == Init /\ [][NextPages]_vars

\* The library called directly: the session store, the gate and the facade,
\* with any arguments.
InitLib ==
    /\ users = { [id |-> 1, email |-> EmailLower,
                  password |-> hashPassword(Pass6), tenantId |-> "T1"],
                 [id |-> 2, email |-> EmailLower,
                  password |-> hashPassword(Pass6), tenantId |-> "T2"] }
    /\ sessions = {}
    /\ orgSettings = { [tenantId |-> "T1", settings |-> "s1"] }
    /\ now = 0
    /\ nextToken = 1
    /\ nextUid = 3
    /\ last = Blank
    /\ pending = [i \in Slots |-> Idle]

NextLib ==
    \/ \E u \in UserIds, t \in TenantIds : CreateSession(u, t)
    \/ \E t \in TenantIds \cup {NoTenant}, k \in Tokens \cup {NoToken} :
          GetSession(t, k)
    \/ \E t \in TenantIds, k \in Tokens \cup {NoToken} : GetSessionUser(t, k)
    \/ \E h \in HeaderValues, k \in Tokens \cup {NoToken} :
          GetAuthenticatedUser(h, k)
    \/ \E k \in Tokens : DeleteSession(k)
    \/ \E t \in TenantIds, u \in UserIds : DbSessionDeleteByUserId(t, u)
    \/ Tick

SpecLib == InitLib /\ [][NextLib]_vars

\* Signups handled at once: the server interleaves the requests at their
\* awaits (duplicate check, insert of the user, creation of the session).
SignupBegin(i, header, email, password) ==
    LET c == signupCheck(users, header, email, password) IN
    /\ pending[i].pc = "idle"
    /\ IF c.pass
       THEN /\ pending' = [pending EXCEPT ![i] =
                             [Idle EXCEPT !.pc = "checked",
                                          !.tenantId = c.resp.reqTenant,
                                          !.email = email,
                                          !.password = password]]
            /\ UNCHANGED last
       ELSE /\ Done(c.resp)
            /\ UNCHANGED pending
    /\ UNCHANGED <<users, sessions, orgSettings, now, nextToken, nextUid>>

SignupCreate(i) ==
    LET q == pending[i]
        c == signupCreate(users, q.tenantId, q.email, q.password, nextUid)
    IN
    /\ q.pc = "checked"
    /\ ~c.threw => nextUid <= MaxUsers
    /\ users' = c.U
    /\ IF c.threw
       THEN /\ Done(c.resp)
            /\ pending' = [pending EXCEPT ![i] = Idle]
            /\ UNCHANGED nextUid
       ELSE /\ nextUid' = nextUid + 1
            /\ pending' = [pending EXCEPT ![i].pc = "created",
                                          ![i].userId = c.user.id]
            /\ UNCHANGED last
    /\ UNCHANGED <<sessions, orgSettings, now, nextToken>>

SignupSession(i) ==
    LET q == pending[i]
        r == signupSession(sessions, users, now, q.userId, q.tenantId,
                           nextToken)
    IN
    /\ q.pc = "created"
    /\ nextToken <= MaxTokens
    /\ sessions' = r.S
    /\ nextToken' = nextToken + 1
    /\ Done(r.resp)
    /\ pending' = [pending EXCEPT ![i] = Idle]
    /\ UNCHANGED <<users, orgSettings, now, nextUid>>

NextConc ==
    \/ \E i \in Slots, h \in HeaderValues, b \in Bodies :
          SignupBegin(i, h, b.email, b.password)
    \/ \E i \in Slots : SignupCreate(i)
    \/ \E i \in Slots : SignupSession(i)
    \/ \E h \in HeaderValues, k \in Tokens \cup {NoToken} : Dashboard(h, k)

SpecConc == Init /\ [][NextConc]_vars

\* extractSubdomain called on a Host header, in the server components and
\* in the middleware
ExtractSubdomainServer(host) ==
    /\ last.op = "init"
    /\ Done([Blank EXCEPT !.op = "extractSubdomain", !.host = host,
                          !.subdomain = extractSubdomain(host)])
    /\ UNCHANGED <<users, sessions, orgSettings, now, nextToken, nextUid,
                   pending>>

ExtractSubdomainMiddleware(host) ==
    /\ last.op = "init"
    /\ Done([Blank EXCEPT !.op = "middleware.extractSubdomain",
                          !.host = host,
                          !.subdomain = extractSubdomain_middleware(host)])
    /\ UNCHANGED <<users, sessions, orgSettings, now, nextToken, nextUid,
                   pending>>

\* the function is applied once to each Host header
NextHost ==
    \/ last.op = "init" /\ \E h \in Hosts : ExtractSubdomainServer(h)
    \/ last.op = "init" /\ \E h \in Hosts : ExtractSubdomainMiddleware(h)

SpecHost == Init /\ [][NextHost]_vars

\* Requests as the deployment receives them: Host header and the client's
\* own x-tenant-subdomain header, routed by path through the matcher.
EdgeHosts ==
    { LOCALHOST \o <<":", "3">>,
      <<"A", ".", "x", ".", "y", ":", "3">>,
      <<"b", ".", "x", ".", "y">>,
      <<"c", ".", "x", ".", "y">> }

EdgeBodies ==
    { [email |-> EmailLower, password |-> Pass6],
      [email |-> EmailLower, password |-> PassOther] }

EdgeSignup(host, clientHeader, email, password) ==
    LET header == forwardedHeader(PATH_SIGNUP, host, clientHeader)
        r == signupPOST(users, sessions, now, header, email, password,
                        nextUid, nextToken) IN
    /\ r.usedUid => nextUid <= MaxUsers
    /\ r.usedToken => nextToken <= MaxTokens
    /\ users' = r.U
    /\ sessions' = r.S
    /\ nextUid' = IF r.usedUid THEN nextUid + 1 ELSE nextUid
    /\ nextToken' = IF r.usedToken THEN nextToken + 1 ELSE nextToken
    /\ Done([r.resp EXCEPT !.host = host, !.header = header])
    /\ UNCHANGED <<pending, orgSettings, now>>

EdgeLogin(host, clientHeader, email, password) ==
    LET header == forwardedHeader(PATH_LOGIN, host, clientHeader)
        r == loginPOST(users, sessions, now, header, email, password,
                       nextToken) IN
    /\ r.usedToken => nextToken <= MaxTokens
    /\ sessions' = r.S
    /\ nextToken' = IF r.usedToken THEN nextToken + 1 ELSE nextToken
    /\ Done([r.resp EXCEPT !.host = host, !.header = header])
    /\ UNCHANGED <<pending, users, orgSettings, now, nextUid>>

EdgeDashboard(host, clientHeader, token) ==
    LET header == forwardedHeader(PATH_DASHBOARD_API, host, clientHeader)
        r == dashboardGET(users, sessions, orgSettings, now, header, token)
    IN
    /\ sessions' = r.S
    /\ Done([r.resp EXCEPT !.host = host, !.header = header])
    /\ UNCHANGED <<pending, users, orgSettings, now, nextToken, nextUid>>

\* the dashboard page: the middleware runs, the server component then
\* resolves the tenant from the Host header by itself
EdgePage(host, clientHeader, token) ==
    LET header == forwardedHeader(PATH_DASHBOARD_PAGE, host, clientHeader)
        subdomain == extractSubdomain(host)
        tenant == IF Falsy(subdomain) THEN NullTenant
                  ELSE getTenantBySubdomain(subdomain)
        r == getServerAuthUser(users, sessions, now, host, token) IN
    /\ sessions' = r.S
    /\ Done([Blank EXCEPT !.op = "page", !.host = host, !.header = header,
                          !.count = Cardinality(sessions \ r.S),
                          !.reqTenant = tenant.id, !.token = token,
                          !.userId = r.user.id, !.tenantId = r.user.tenantId])
    /\ UNCHANGED <<pending, users, orgSettings, now, nextToken, nextUid>>

NextEdge ==
    \/ \E h \in EdgeHosts, c \in HeaderValues, b \in EdgeBodies :
          EdgeSignup(h, c, b.email, b.password)
    \/ \E h \in EdgeHosts, c \in HeaderValues, b \in EdgeBodies :
          EdgeLogin(h, c, b.email, b.password)
    \/ \E h \in EdgeHosts, c \in HeaderValues, k \in Tokens \cup {NoToken} :
          EdgeDashboard(h, c, k)
    \/ \E h \in EdgeHosts, c \in HeaderValues, k \in Tokens \cup {NoToken} :
          EdgePage(h, c, k)

SpecEdge == Init /\ [][NextEdge]_vars

\* getTenantBySubdomain called on any string, the database reachable or not
SubdomainChars == { "a", "B", "c", " " }

Subdomains == UNION { [1..n -> SubdomainChars] : n \in 0..MaxSubLen }

GetTenantBySubdomain(subdomain, fails) ==
    LET r == getTenantBySubdomain_try(subdomain, fails) IN
    /\ Done([Blank EXCEPT !.op = "getTenantBySubdomain",
                          !.header = subdomain,
                          !.reqTenant = r.tenant.id,
                          !.subdomain = r.tenant.subdomain,
                          !.threw = r.threw, !.logged = r.logged])
    /\ UNCHANGED <<users, sessions, orgSettings, now, nextToken, nextUid,
                   pending>>

\* the function is applied once to each subdomain
NextTenant ==
    last.op = "init" /\ \E s \in Subdomains, f \in BOOLEAN :
                            GetTenantBySubdomain(s, f)

SpecTenant == Init /\ [][NextTenant]_vars

\* the where clauses and update data callers of the facade pass
UserWheres ==
    {NoWhere} \cup { [tenantId |-> t] : t \in TenantIds }
              \cup { [id |-> u] : u \in UserIds }

SessionWheres ==
    {NoWhere} \cup { [tenantId |-> t] : t \in TenantIds }
              \cup { [userId |-> u] : u \in UserIds }

\* where clauses handed to withTenant, some naming a tenant themselves
ScopedWheres ==
    UserWheres \cup { [id |-> u, tenantId |-> t] :
                         u \in UserIds, t \in TenantIds }

UserData == { [email |-> EmailUpper] }

DbUserUpdate(tenantId, userId, data) ==
    LET r == dbUser_update(users, tenantId, userId, data) IN
    /\ users' = r.U
    /\ Done([Blank EXCEPT !.op = "dbUser.update", !.reqTenant = tenantId,
                          !.userId = userId, !.where = data,
                          !.count = r.count, !.threw = r.threw])
    /\ UNCHANGED <<pending, sessions, orgSettings, now, nextToken, nextUid>>

DbUserDelete(tenantId, userId, cascade) ==
    LET r == dbUser_delete(users, sessions, tenantId, userId, cascade) IN
    /\ users' = r.U
    /\ sessions' = r.S
    /\ Done([Blank EXCEPT !.op = "dbUser.delete", !.reqTenant = tenantId,
                          !.userId = userId,
                          !.count = r.count, !.threw = r.threw])
    /\ UNCHANGED <<pending, orgSettings, now, nextToken, nextUid>>

DbSessionDeleteByToken(tenantId, token) ==
    LET r == dbSession_deleteByToken(sessions, tenantId, token) IN
    /\ sessions' = r.S
    /\ Done([Blank EXCEPT !.op = "dbSession.deleteByToken",
                          !.reqTenant = tenantId, !.token = token,
                          !.count = r.count, !.threw = r.threw])
    /\ UNCHANGED <<pending, users, orgSettings, now, nextToken, nextUid>>

\* a read through the facade: op names the function called
Read(op, tenantId, where, rows, count) ==
    /\ Done([Blank EXCEPT !.op = op, !.reqTenant = tenantId,
                          !.where = where, !.rows = rows, !.count = count])
    /\ UNCHANGED <<pending, users, sessions, orgSettings, now, nextToken,
                   nextUid>>

DbUserRead(tenantId, where) ==
    \/ LET rows == dbUser_findMany(users, tenantId, where)
       IN  Read("dbUser.findMany", tenantId, where, rows, Cardinality(rows))
    \/ Read("dbUser.count", tenantId, where, {},
            dbUser_count_where(users, tenantId, where))
    \/ LET rows == scope_user_findMany(users, tenantId, where)
       IN  Read("scope.user.findMany", tenantId, where, rows,
                Cardinality(rows))
    \/ LET rows == scope_user_findUnique(users, tenantId, where)
       IN  Read("scope.user.findUnique", tenantId, where, rows,
                Cardinality(rows))

DbSessionRead(tenantId, where) ==
    \/ LET rows == dbSession_findMany(sessions, tenantId, where)
       IN  Read("dbSession.findMany", tenantId, where, rows,
                Cardinality(rows))
    \/ Read("dbSession.count", tenantId, where, {},
            dbSession_count_where(sessions, tenantId, where))
    \/ LET rows == scope_session_findMany(sessions, tenantId, where)
       IN  Read("scope.session.findMany", tenantId, where, rows,
                Cardinality(rows))
    \/ LET rows == scope_session_findUnique(sessions, tenantId, where)
       IN  Read("scope.session.findUnique", tenantId, where, rows,
                Cardinality(rows))

ScopeOrgSettings(tenantId) ==
    /\ Done([Blank EXCEPT !.op = "scope.orgSettings.findUnique",
                          !.reqTenant = tenantId,
                          !.settings = scope_orgSettings_findUnique(
                                           orgSettings, tenantId)])
    /\ UNCHANGED <<pending, users, sessions, orgSettings, now, nextToken,
                   nextUid>>

WithTenant(tenantId, where) ==
    /\ Done([Blank EXCEPT !.op = "withTenant", !.reqTenant = tenantId,
                          !.where = where,
                          !.scoped = withTenant(tenantId, where)])
    /\ UNCHANGED <<pending, users, sessions, orgSettings, now, nextToken,
                   nextUid>>

\* the facade over a database holding a user in each tenant
NextFacade ==
    \/ \E u \in UserIds, t \in TenantIds : CreateSession(u, t)
    \/ \E t \in TenantIds, u \in UserIds, d \in UserData :
          DbUserUpdate(t, u, d)
    \/ \E t \in TenantIds, u \in UserIds, c \in BOOLEAN :
          DbUserDelete(t, u, c)
    \/ \E t \in TenantIds, k \in Tokens : DbSessionDeleteByToken(t, k)
    \/ \E t \in TenantIds, w \in UserWheres : DbUserRead(t, w)
    \/ \E t \in TenantIds, w \in SessionWheres : DbSessionRead(t, w)
    \/ \E t \in TenantIds : ScopeOrgSettings(t)
    \/ last.op = "init" /\ \E t \in TenantIds, w \in ScopedWheres :
                            WithTenant(t, w)

SpecFacade == InitLib /\ [][NextFacade]_vars

\* createSession and getSession step by step, so that other calls run
\* between their awaits.  createSession is called as login and signup call
\* it: for a user and the tenant of that user.
CreateSessionBegin(i, userId, tenantId) ==
    LET row == createSessionRow(now, userId, tenantId, nextToken) IN
    /\ pending[i].pc = "idle"
    /\ nextToken <= MaxTokens
    /\ nextToken' = nextToken + 1
    /\ pending' = [pending EXCEPT ![i] =
                     [Idle EXCEPT !.pc = "creating", !.userId = row.userId,
                                  !.tenantId = row.tenantId,
                                  !.token = row.token,
                                  !.expiresAt = row.expiresAt]]
    /\ UNCHANGED <<users, sessions, orgSettings, now, nextUid, last>>

CreateSessionInsert(i) ==
    LET q == pending[i]
        r == createSessionInsert(sessions, users,
                 [userId |-> q.userId, tenantId |-> q.tenantId,
                  token |-> q.token, expiresAt |-> q.expiresAt])
    IN
    /\ q.pc = "creating"
    /\ sessions' = r.S
    /\ Done([Blank EXCEPT !.op = "createSession", !.reqTenant = q.tenantId,
                          !.userId = q.userId, !.cookie = r.token,
                          !.threw = r.threw])
    /\ pending' = [pending EXCEPT ![i] = Idle]
    /\ UNCHANGED <<users, orgSettings, now, nextToken, nextUid>>

GetSessionFind(i, tenantId, token) ==
    LET found == getSessionFind(sessions, token) IN
    /\ pending[i].pc = "idle"
    /\ IF found = {}
       THEN /\ Done([Blank EXCEPT !.op = "getSession",
                                  !.reqTenant = tenantId, !.token = token])
            /\ UNCHANGED pending
       ELSE LET session == CHOOSE s \in found : TRUE IN
            /\ pending' = [pending EXCEPT ![i] =
                             [Idle EXCEPT !.pc = "found",
                                          !.reqTenant = tenantId,
                                          !.userId = session.userId,
                                          !.tenantId = session.tenantId,
                                          !.token = session.token,
                                          !.expiresAt = session.expiresAt]]
            /\ UNCHANGED last
    /\ UNCHANGED <<users, sessions, orgSettings, now, nextToken, nextUid>>

GetSessionCheck(i) ==
    LET q == pending[i]
        r == getSessionCheck(sessions, now,
                 [userId |-> q.userId, tenantId |-> q.tenantId,
                  token |-> q.token, expiresAt |-> q.expiresAt],
                 q.reqTenant)
    IN
    /\ q.pc = "found"
    /\ sessions' = r.S
    /\ Done([Blank EXCEPT !.op = "getSession", !.reqTenant = q.reqTenant,
                          !.count = Cardinality(sessions \ r.S),
                          !.token = q.token, !.userId = r.res.userId,
                          !.tenantId = r.res.tenantId,
                          !.threw = r.threw, !.logged = r.logged])
    /\ pending' = [pending EXCEPT ![i] = Idle]
    /\ UNCHANGED <<users, orgSettings, now, nextToken, nextUid>>

\* the calls in flight take the lowest free slot: which slot a call sits in
\* has no effect on it
FreeSlot(i) ==
    /\ pending[i].pc = "idle"
    /\ \A j \in Slots : j < i => pending[j].pc # "idle"

\* logins of the users at once: their createSession calls overlap, sessions
\* are revoked, expire and are validated meanwhile
NextLogins ==
    \/ \E i \in Slots, u \in users :
          FreeSlot(i) /\ CreateSessionBegin(i, u.id, u.tenantId)
    \/ \E i \in Slots : CreateSessionInsert(i)
    \/ \E k \in Tokens : GetSession(NoTenant, k)
    \/ \E k \in Tokens : DeleteSession(k)
    \/ Sweep
    \/ Tick

SpecLogins == InitLib /\ [][NextLogins]_vars

\* validations in flight while sessions are created, logged out, swept and
\* expire
ValidationSlots == 1..MaxValidations

NextRace ==
    \/ \E u \in users : CreateSession(u.id, u.tenantId)
    \/ \E i \in ValidationSlots, t \in TenantIds, k \in Tokens :
          FreeSlot(i) /\ GetSessionFind(i, t, k)
    \/ \E i \in ValidationSlots : GetSessionCheck(i)
    \/ \E k \in Tokens : Logout(<<"a">>, k)
    \/ Sweep
    \/ Tick

SpecRace == InitLib /\ [][NextRace]_vars

\* createSession when generateSessionToken may return any token, one in use
\* included: the random bytes are not checked against the table
CreateSessionToken(userId, tenantId, token) ==
    LET r == createSession(sessions, users, now, userId, tenantId, token) IN
    /\ sessions' = r.S
    /\ Done([Blank EXCEPT !.op = "createSession", !.reqTenant = tenantId,
                          !.userId = userId, !.token = token,
                          !.cookie = r.token, !.threw = r.threw])
    /\ UNCHANGED <<pending, users, orgSettings, now, nextToken, nextUid>>

NextTokens ==
    \/ \E u \in users, k \in Tokens : CreateSessionToken(u.id, u.tenantId, k)
    \/ \E t \in TenantIds, k \in Tokens : GetSession(t, k)
    \/ \E k \in Tokens : DeleteSession(k)
    \/ Sweep
    \/ Tick

SpecTokens == InitLib /\ [][NextTokens]_vars

\* getSessionUser(tenantId) step by step: up to the answer of getSession,
\* then the lookup of the user; sessions are created and users deleted in
\* between
SessionUserBegin(i, tenantId, token) ==
    LET g     == getSession(sessions, now, token, tenantId)
        calls == getSession_calls(sessions, now, token)
    IN
    /\ pending[i].pc = "idle"
    /\ sessions' = g.S
    /\ IF g.res.ok
       THEN /\ pending' = [pending EXCEPT ![i] =
                             [Idle EXCEPT !.pc = "loadUser",
                                          !.gate = "getSessionUser",
                                          !.reqTenant = tenantId,
                                          !.userId = g.res.userId,
                                          !.tenantId = g.res.tenantId,
                                          !.token = g.res.token,
                                          !.calls = calls]]
            /\ UNCHANGED last
       ELSE /\ Done([Blank EXCEPT !.op = "getSessionUser",
                                  !.reqTenant = tenantId,
                                  !.token = token, !.calls = calls,
                                  !.count = Cardinality(sessions \ g.S)])
            /\ UNCHANGED pending
    /\ UNCHANGED <<users, orgSettings, now, nextToken, nextUid>>

LoadUser(i) ==
    LET q == pending[i]
        session == [ok |-> TRUE, userId |-> q.userId, tenantId |-> q.tenantId,
                    token |-> q.token]
        r == getSessionUser_loadUser(users, sessions, session, q.reqTenant)
    IN
    /\ q.pc = "loadUser"
    /\ sessions' = r.S
    /\ Done([Blank EXCEPT !.op = q.gate, !.reqTenant = q.reqTenant,
                          !.token = q.token, !.rows = {session},
                          !.userId = r.user.id, !.tenantId = r.user.tenantId,
                          !.calls = q.calls \o r.calls,
                          !.count = Cardinality(sessions \ r.S)])
    /\ pending' = [pending EXCEPT ![i] = Idle]
    /\ UNCHANGED <<users, orgSettings, now, nextToken, nextUid>>

NextLoad ==
    \/ \E u \in users, t \in TenantIds : CreateSession(u.id, t)
    \/ \E u \in users, c \in BOOLEAN : DbUserDelete(u.tenantId, u.id, c)
    \/ \E i \in ValidationSlots, t \in TenantIds, k \in Tokens :
          FreeSlot(i) /\ SessionUserBegin(i, t, k)
    \/ \E i \in ValidationSlots : LoadUser(i)
    \/ Tick

SpecLoad == InitLib /\ [][NextLoad]_vars

\* a gate as one call: the steps up to getSession, then, the session being
\* accepted, the lookup of the user
Gate(gate, b, token) ==
    LET l == getSessionUser_loadUser(users, b.S, b.res, b.tenantId)
        S == IF b.res.ok THEN l.S ELSE b.S
    IN
    /\ sessions' = S
    /\ Done([Blank EXCEPT !.op = gate, !.reqTenant = b.tenantId,
                          !.token = token,
                          !.rows = IF b.res.ok THEN {b.res} ELSE {},
                          !.userId = IF b.res.ok THEN l.user.id ELSE NoUser,
                          !.tenantId = IF b.res.ok THEN l.user.tenantId
                                       ELSE NoTenant,
                          !.calls = IF b.res.ok THEN b.calls \o l.calls
                                    ELSE b.calls,
                          !.count = Cardinality(sessions \ S)])
    /\ UNCHANGED <<pending, users, orgSettings, now, nextToken, nextUid>>

AuthGate(header, token) ==
    Gate("getAuthenticatedUser",
         getAuthenticatedUser_toSession(sessions, now, header, token), token)

ServerAuthGate(host, token) ==
    Gate("getServerAuthUser",
         getServerAuthUser_toSession(sessions, now, host, token), token)

NextGate ==
    \/ \E u \in users, t \in TenantIds : CreateSession(u.id, t)
    \/ \E h \in HeaderValues, k \in Tokens \cup {NoToken} : AuthGate(h, k)
    \/ \E h \in { <<>>, <<"A", ".", "x", ".", "y", ":", "3">>,
                  <<"b", ".", "x", ".", "y">>, <<"c", ".", "x", ".", "y">> },
          k \in Tokens \cup {NoToken} : ServerAuthGate(h, k)
    \/ Tick

SpecGate == InitLib /\ [][NextGate]_vars

\* requests served while the database may fail at a statement
SignupTry(header, email, password, fails) ==
    LET r == signupPOST_try(users, sessions, now, header, email, password,
                            nextUid, nextToken, fails) IN
    /\ r.usedUid => nextUid <= MaxUsers
    /\ r.usedToken => nextToken <= MaxTokens
    /\ users' = r.U
    /\ sessions' = r.S
    /\ nextUid' = IF r.usedUid THEN nextUid + 1 ELSE nextUid
    /\ nextToken' = IF r.usedToken THEN nextToken + 1 ELSE nextToken
    /\ Done(r.resp)
    /\ UNCHANGED <<pending, orgSettings, now>>

LogoutTry(header, token, fails) ==
    LET r == logoutPOST_try(sessions, header, token, fails) IN
    /\ sessions' = r.S
    /\ Done(r.resp)
    /\ UNCHANGED <<pending, users, orgSettings, now, nextToken, nextUid>>

NextFault ==
    \/ \E h \in HeaderValues, b \in Bodies, f \in BOOLEAN :
          SignupTry(h, b.email, b.password, f)
    \/ \E h \in HeaderValues, k \in Tokens \cup {NoToken}, f \in BOOLEAN :
          LogoutTry(h, k, f)
    \/ \E h \in HeaderValues, k \in Tokens \cup {NoToken} : Dashboard(h, k)

SpecFault == Init /\ [][NextFault]_vars

TypeOK ==
    /\ now \in 0..MaxTime
    /\ nextToken \in 1..(MaxTokens + 1)
    /\ nextUid \in 1..(MaxUsers + 1) \cup {3}
    /\ \A s \in sessions : s.token \in Tokens /\ s.tenantId \in TenantIds
    /\ \A u \in users : u.id \in UserIds \cup {1, 2}
                          /\ u.tenantId \in TenantIds

\* ================================================================== claims
\* a step of an operation (every step but Tick records its call in "last")
Called(ops) == last'.op \in ops /\ now' = now

ValidationOps ==
    { "getSession", "getSessionUser", "getAuthenticatedUser",
      "getServerAuthUser", "dashboard" }

\* a step in which the token of the request was validated: the gates reach
\* the session store only once the tenant is resolved
Validated ==
    /\ Called(ValidationOps)
    /\ last'.op = "getSession" \/ last'.reqTenant \in TenantIds

RowOf(S, token) == { s \in S : s.token = token }

\* C1: a session of tenant T1 fails validation against any other tenant T2:
\* getSession(T2) and getSessionUser(T2) return null and the dashboard of a
\* request resolved to T2 answers 401, whether or not the session expired.
C1_CrossTenantRejected ==
    \A s \in sessions : \A t2 \in TenantIds \ {s.tenantId} :
        /\ getSession(sessions, now, s.token, t2).res = NullSession
        /\ getSessionUser(users, sessions, now, s.token, t2).user = NullUserRow
        /\ \A h \in HeaderValues :
              getTenantFromRequest(h).id = t2 =>
                dashboardGET(users, sessions, orgSettings, now, h,
                             s.token).resp.status = 401

\* an unexpired session's token was presented to the dashboard of another
\* tenant and was answered 401
C1_Witness ==
    /\ last.op = "dashboard" /\ last.status = 401
    /\ last.reqTenant \in TenantIds
    /\ \E s \in sessions :
          /\ s.token = last.token /\ s.expiresAt >= now
          /\ s.tenantId # last.reqTenant

\* C2: a request handled for tenant T2 (login, signup, dashboard, logout, a
\* validation against T2) leaves every User, Session and OrgSettings row of
\* every other tenant as it was.
C2_NoCrossTenantWrite ==
    [][ ( /\ Called({"login", "signup", "dashboard", "logout",
                     "getServerAuthUser"})
          /\ last'.reqTenant \in TenantIds )
        => /\ { u \in users : u.tenantId # last'.reqTenant }
                = { u \in users' : u.tenantId # last'.reqTenant }
           /\ { x \in sessions : x.tenantId # last'.reqTenant }
                = { x \in sessions' : x.tenantId # last'.reqTenant }
           /\ { o \in orgSettings : o.tenantId # last'.reqTenant }
                = { o \in orgSettings' : o.tenantId # last'.reqTenant }
      ]_vars

\* C3: every session row carries the tenantId of the user row it names.
C3_SessionTenantIsUserTenant ==
    \A s \in sessions :
        \E u \in users : u.id = s.userId /\ u.tenantId = s.tenantId

\* a login succeeded and its session is stored next to the signup's
C3_Witness ==
    /\ last.op = "login" /\ last.status = 200
    /\ \E s \in sessions :
          s.token = last.cookie /\ s.tenantId = last.reqTenant
    /\ Cardinality(sessions) = 2

\* C4: the gate returns a user exactly when the request's tenant resolves to
\* some T, the token names a session that has not expired with tenantId
\* T.id, and that session's user row exists with tenantId T.id; then it
\* returns that user, otherwise null.  Both gates: header and Host.
GateAnswer(tenant, token) ==
    LET ok == { u \in users :
                  \E s \in sessions :
                      /\ tenant # NullTenant
                      /\ s.token = token /\ ~(s.expiresAt < now)
                      /\ s.tenantId = tenant.id
                      /\ u.id = s.userId /\ u.tenantId = tenant.id }
    IN  IF ok = {} THEN {NullUserRow} ELSE ok

C4_GateAllOrNothing ==
    \A k \in Tokens \cup {NoToken} :
        /\ \A h \in HeaderValues :
              getAuthenticatedUser(users, sessions, now, h, k).user
                \in GateAnswer(getTenantFromRequest(h), k)
        /\ \A h \in HostValues :
              getServerAuthUser(users, sessions, now, h, k).user
                \in GateAnswer(IF Falsy(extractSubdomain(h)) THEN NullTenant
                               ELSE getTenantBySubdomain(extractSubdomain(h)),
                               k)

\* the gate returned a user
C4_Witness ==
    /\ last.op = "getAuthenticatedUser" /\ last.userId # NoUser
    /\ last.tenantId = last.reqTenant

\* C5: a token returned by createSession(userId, tenantId) validates at once
\* against tenantId and yields exactly {userId, tenantId}.
C5_RoundTrip ==
    [][ (Called({"createSession"}) /\ ~last'.threw)
        => getSession(sessions', now', last'.cookie, last'.reqTenant).res
             = [ok |-> TRUE, userId |-> last'.userId,
                tenantId |-> last'.reqTenant, token |-> last'.cookie]
      ]_vars

\* createSession returned a token whose row is stored
C5_Witness ==
    /\ last.op = "createSession" /\ ~last.threw
    /\ RowOf(sessions, last.cookie) # {}

\* C6 as stated: a validation at the instant now = expiresAt finds the
\* session expired, returns null and removes the row.
C6_BoundaryIsExpired ==
    [][ ( /\ Called({"getSession"})
          /\ \E s \in sessions : s.token = last'.token /\ s.expiresAt = now )
        => /\ last'.userId = NoUser
           /\ RowOf(sessions', last'.token) = {}
      ]_vars

\* C6 amended: a session is expired only when expiresAt < now.  Validated at
\* the instant now = expiresAt it is still valid: its row is kept, and its
\* identity is returned unless another tenant was expected.
C6_BoundaryIsValid ==
    [][ Called({"getSession"})
        => \A s \in sessions :
             (s.token = last'.token /\ s.expiresAt = now)
             => /\ s \in sessions'
                /\ last'.reqTenant \in {NoTenant, s.tenantId}
                     => /\ last'.userId = s.userId
                        /\ last'.tenantId = s.tenantId
      ]_vars

\* getSession returned the identity of a session that expires right now
C6_Witness ==
    /\ last.op = "getSession" /\ last.userId # NoUser
    /\ \E s \in sessions : s.token = last.token /\ s.expiresAt = now

\* C7: a session created at time t expires at t + 30 days; a validation of
\* its token when expiresAt is in the past returns null and leaves no row
\* for the token; a validation that succeeds found a row not yet expired.
C7_ExpiresAfterThirtyDays ==
    [][ /\ \A s \in sessions' \ sessions : s.expiresAt = now + 30
        /\ Validated
             => /\ (\E s \in sessions :
                       s.token = last'.token /\ s.expiresAt < now)
                    => /\ last'.userId = NoUser
                       /\ RowOf(sessions', last'.token) = {}
                /\ last'.userId # NoUser
                    => \E s \in sessions :
                         s.token = last'.token /\ s.expiresAt >= now
      ]_vars

\* a validation found the token's session expired and removed its row
C7_Witness ==
    /\ last.op = "getSession" /\ last.count = 1
    /\ last.userId = NoUser
    /\ RowOf(sessions, last.token) = {}

\* C8: deleteSession(token) never raises, also when no row has the token
\* (a second call, a token never issued), and leaves no row with the token.
C8_RevokeIdempotent ==
    last.op = "deleteSession"
    => /\ ~last.threw
       /\ RowOf(sessions, last.token) = {}

\* deleteSession was called for a token without a row: the store's error
\* was caught
C8_Witness ==
    /\ last.op = "deleteSession" /\ last.logged /\ last.count = 0

\* C9: dbSession.deleteByUserId(tenantId, userId) removes exactly the rows
\* with that userId and that tenantId.
C9_DeleteByUserIdScoped ==
    [][ Called({"dbSession.deleteByUserId"})
        => /\ sessions' = { s \in sessions :
                              ~(/\ s.userId = last'.userId
                                /\ s.tenantId = last'.reqTenant) }
           /\ last'.count = Cardinality(sessions \ sessions')
      ]_vars

\* rows were removed while a session of the same user under another tenant
\* stayed
C9_Witness ==
    /\ last.op = "dbSession.deleteByUserId" /\ last.count >= 1
    /\ \E s \in sessions :
          s.userId = last.userId /\ s.tenantId # last.reqTenant

\* C10: cleanupExpiredSessions removes exactly the rows with
\* expiresAt < now, of every tenant, and returns how many it removed.
C10_SweepExact ==
    [][ Called({"cleanupExpiredSessions"})
        => /\ sessions' = { s \in sessions : s.expiresAt >= now }
           /\ last'.count = Cardinality(sessions) - Cardinality(sessions')
      ]_vars

\* a sweep removed a row and kept the row that expires right now
C10_Witness ==
    /\ last.op = "cleanupExpiredSessions" /\ last.count >= 1
    /\ \E s \in sessions : s.expiresAt = now


\* the emails and passwords a request body can carry
BodyEmails == { b.email : b \in Bodies } \ { <<>> }
BodyPasswords == { b.password : b \in Bodies } \ { <<>> }

\* C11: under a resolved tenant, a login with the email of a user of that
\* tenant and a wrong password gets the same answer (status and message, and
\* every other member) as a login with an email no user of the tenant has,
\* and neither stores a session nor uses a token.
C11_LoginRejectionsAlike ==
    \A h \in HeaderValues :
      LET tenant  == getTenantFromRequest(h)
          wrongPw == { loginPOST(users, sessions, now, h, x[1].email, x[2],
                                 nextToken) :
                         x \in { y \in users \X BodyPasswords :
                                   /\ y[1].tenantId = tenant.id
                                   /\ ~comparePassword(y[2], y[1].password) } }
          noUser  == { loginPOST(users, sessions, now, h, x[1], x[2],
                                 nextToken) :
                         x \in { y \in BodyEmails \X BodyPasswords :
                                   dbUser_findByEmail(users, tenant.id,
                                                      y[1]) = {} } }
      IN  tenant # NullTenant =>
            /\ \A a \in wrongPw : \A b \in noUser : a.resp = b.resp
            /\ \A r \in wrongPw \cup noUser :
                  /\ r.resp.status = 401
                  /\ r.resp.error = "Invalid email or password"
                  /\ r.S = sessions /\ ~r.usedToken

\* a login was answered 401 under a tenant that has a user, a state in
\* which both the wrong-password and the unknown-email request are refused
C11_Witness ==
    /\ last.op = "login" /\ last.status = 401
    /\ last.error = "Invalid email or password"
    /\ \E u \in users : \E e \in BodyEmails :
          /\ u.tenantId = last.reqTenant
          /\ dbUser_findByEmail(users, last.reqTenant, e) = {}
          /\ \E p \in BodyPasswords : ~comparePassword(p, u.password)


\* what the caller of a route sees of a rejection: status and message
Outcome(resp) == <<resp.status, resp.error>>

Unresolved == { h \in HeaderValues : getTenantFromRequest(h) = NullTenant }
Resolved == HeaderValues \ Unresolved
Cookies == Tokens \cup {NoToken}

\* C12 (as stated): at login and at the dashboard, a request refused because
\* its tenant is unresolved gets the same status and message as a request
\* refused as unauthenticated under a resolved tenant.  (Signup has no
\* unauthenticated refusal to compare with.)
C12_UnresolvedLikeUnauthenticated ==
    \A h0 \in Unresolved : \A h1 \in Resolved :
      /\ \A b \in Bodies :
            LET r0 == loginPOST(users, sessions, now, h0, b.email,
                                b.password, nextToken).resp
                r1 == loginPOST(users, sessions, now, h1, b.email,
                                b.password, nextToken).resp
            IN  r1.status = 401 => Outcome(r0) = Outcome(r1)
      /\ \A k \in Cookies :
            LET r0 == dashboardGET(users, sessions, orgSettings, now, h0,
                                   k).resp
                r1 == dashboardGET(users, sessions, orgSettings, now, h1,
                                   k).resp
            IN  r1.status = 401 => Outcome(r0) = Outcome(r1)

\* C12 (amended): a request whose tenant is unresolved is answered
\* 404 "Tenant not found" by login and by signup, whatever its body, and
\* changes nothing; only the dashboard answers it as it answers an
\* unauthenticated request, 401 "Unauthorized", whatever cookie it carries.
C12_UnresolvedOutcomes ==
    \A h0 \in Unresolved :
      /\ \A b \in Bodies :
            LET l == loginPOST(users, sessions, now, h0, b.email, b.password,
                               nextToken)
                g == signupPOST(users, sessions, now, h0, b.email,
                                b.password, nextUid, nextToken)
            IN  /\ Outcome(l.resp) = <<404, "Tenant not found">>
                /\ Outcome(g.resp) = <<404, "Tenant not found">>
                /\ l.S = sessions /\ g.S = sessions /\ g.U = users
      /\ \A k \in Cookies :
            LET d == dashboardGET(users, sessions, orgSettings, now, h0, k)
            IN  /\ Outcome(d.resp) = <<401, "Unauthorized">>
                /\ d.S = sessions
                /\ \A h1 \in Resolved :
                      LET r1 == dashboardGET(users, sessions, orgSettings,
                                             now, h1, k).resp
                      IN  r1.status # 200 => Outcome(r1) = Outcome(d.resp)

\* the dashboard refused a stored session's token because the tenant of the
\* request was unresolved, after a login was possible under a tenant
C12_Witness ==
    /\ last.op = "dashboard" /\ last.reqTenant = NoTenant
    /\ last.status = 401
    /\ \E s \in sessions : s.token = last.token /\ s.expiresAt >= now


\* no user of the tenant has the email, as given or as signup stores it
EmailFree(U, tenantId, email) ==
    \A u \in U : u.tenantId = tenantId =>
        u.email # email /\ u.email # trim(toLowerCase(email))

\* C13: for tenants T1 # T2 and an email E that neither has yet, creating
\* (E, T1) and then (E, T2) succeeds twice, through dbUser.create and through
\* signup (E well-formed), in either order, and the two users have distinct
\* ids; the first user does not stand in the way of the second.
C13_SameEmailTwoTenants ==
    \A e \in BodyEmails : \A t1 \in TenantIds : \A t2 \in TenantIds \ {t1} :
      ( EmailFree(users, t1, e) /\ EmailFree(users, t2, e) ) =>
        /\ LET c1 == dbUser_create(users, t1, nextUid, e, hashPassword(Pass6))
               c2 == dbUser_create(c1.U, t2, nextUid + 1, e,
                                   hashPassword(Pass6))
           IN  /\ ~c1.threw /\ ~c2.threw
               /\ c1.user.id # c2.user.id
               /\ c1.user.tenantId = t1 /\ c2.user.tenantId = t2
               /\ c1.user.email = e /\ c2.user.email = e
               /\ c2.U = users \cup {c1.user, c2.user}
        /\ \A h1 \in Resolved : \A h2 \in Resolved :
             ( /\ getTenantFromRequest(h1).id = t1
               /\ getTenantFromRequest(h2).id = t2
               /\ emailRegexTest(e) ) =>
               LET g1 == signupPOST(users, sessions, now, h1, e, Pass6,
                                    nextUid, nextToken)
                   g2 == signupPOST(g1.U, g1.S, now, h2, e, Pass6,
                                    nextUid + 1, nextToken + 1)
               IN  /\ g1.resp.status = 201 /\ g2.resp.status = 201
                   /\ g1.resp.userId # g2.resp.userId
                   /\ \E u1 \in g2.U, u2 \in g2.U :
                         /\ u1.id = g1.resp.userId /\ u1.tenantId = t1
                         /\ u2.id = g2.resp.userId /\ u2.tenantId = t2
                         /\ u1.email = u2.email

\* a signup just succeeded for an email that a user of the other tenant
\* already had
C13_Witness ==
    /\ last.op = "signup" /\ last.status = 201
    /\ \E u1 \in users, u2 \in users :
          /\ u2.id = last.userId /\ u2.tenantId = last.reqTenant
          /\ u1.id # u2.id /\ u1.tenantId # u2.tenantId
          /\ u1.email = u2.email


\* C14: a signup under tenant T whose input passes validation and whose
\* email, as signup stores it (lower-cased, trimmed), is the email of a user
\* of T is answered 409 and creates neither a user nor a session.
C14_DuplicateIsConflict ==
    \A h \in Resolved : \A e \in BodyEmails : \A p \in BodyPasswords :
      LET tenant == getTenantFromRequest(h)
          g == signupPOST(users, sessions, now, h, e, p, nextUid, nextToken)
      IN  ( /\ emailRegexTest(e) /\ Len(p) >= 6
            /\ \E u \in users : /\ u.tenantId = tenant.id
                                /\ u.email = trim(toLowerCase(e)) )
          => /\ g.resp.status = 409
             /\ g.U = users /\ g.S = sessions


\* C15: no two User rows share the pair (email, tenantId), also when the
\* signups for one email under one tenant are handled at the same time
\* (both pass the duplicate check before either inserts).
C15_EmailUniquePerTenant ==
    \A u1 \in users : \A u2 \in users :
        (u1.email = u2.email /\ u1.tenantId = u2.tenantId) => u1.id = u2.id

\* two signups for one email and tenant had both passed the duplicate check
\* and one has inserted its user: the other still holds its "no such user"
C15_Witness ==
    \E i \in Slots : \E u \in users :
        /\ pending[i].pc = "checked"
        /\ u.email = pending[i].email /\ u.tenantId = pending[i].tenantId


\* C16: the cookie a successful signup under T issued names a session of the
\* user just created and of T, and for as long as a session row is stored
\* (not revoked) and has not expired, the dashboard of a request resolved to
\* the session's tenant with that cookie answers 200 with the session's user
\* id and the tenant's id.
C16_SignupThenDashboard ==
    /\ (last.op = "signup" /\ last.status = 201) =>
          /\ \E s \in sessions :
                /\ s.token = last.cookie /\ s.userId = last.userId
                /\ s.tenantId = last.reqTenant
          /\ \E u \in users :
                u.id = last.userId /\ u.tenantId = last.reqTenant
    /\ \A s \in sessions : \A h \in Resolved :
          ( ~(s.expiresAt < now) /\ getTenantFromRequest(h).id = s.tenantId )
          => LET d == dashboardGET(users, sessions, orgSettings, now, h,
                                   s.token).resp
             IN  /\ d.status = 200
                 /\ d.userId = s.userId /\ d.tenantId = s.tenantId

\* the dashboard answered 200 for the cookie of a signup, a session lifetime
\* after the signup
C16_Witness ==
    /\ last.op = "dashboard" /\ last.status = 200
    /\ \E s \in sessions :
          /\ s.token = last.token /\ s.userId = last.userId
          /\ s.tenantId = last.tenantId /\ s.expiresAt = now


\* the rows of a table that belong to one tenant
OfTenant(rows, tenantId) == { r \in rows : r.tenantId = tenantId }

\* C17: a 200 answer of the dashboard for a request resolved to tenant T
\* holds data of T only: the user is a User row of T, totalUsers is the
\* number of User rows of T, activeSessions counts Session rows of T only
\* (those with expiresAt > now), settings is the OrgSettings document of T
\* (null when T has none), and the answer is the one the dashboard gives
\* when the rows of every other tenant are taken out of the three tables.
C17_DashboardOnlyOwnTenant ==
    \A h \in HeaderValues : \A k \in Cookies :
      LET T == getTenantFromRequest(h).id
          d == dashboardGET(users, sessions, orgSettings, now, h, k).resp
          own == dashboardGET(OfTenant(users, T), OfTenant(sessions, T),
                              OfTenant(orgSettings, T), now, h, k).resp
      IN  d.status = 200 =>
            /\ T \in TenantIds /\ d.tenantId = T
            /\ \E u \in users : u.id = d.userId /\ u.tenantId = T
            /\ d.totalUsers = Cardinality(OfTenant(users, T))
            /\ d.activeSessions =
                  Cardinality({ x \in OfTenant(sessions, T) :
                                  x.expiresAt > now })
            /\ d.activeSessions <= Cardinality(OfTenant(sessions, T))
            /\ d.settings =
                  ( IF OfTenant(orgSettings, T) = {} THEN "null"
                    ELSE (CHOOSE o \in OfTenant(orgSettings, T) :
                            TRUE).settings )
            /\ d = own

\* the dashboard answered 200 for one tenant while the tables also held a
\* user, a session and the settings of the other tenant
C17_Witness ==
    /\ last.op = "dashboard" /\ last.status = 200
    /\ last.totalUsers = 1
    /\ \E u \in users : u.tenantId # last.tenantId
    /\ \E x \in sessions : x.tenantId # last.tenantId /\ x.expiresAt > now
    /\ \E o \in orgSettings : o.tenantId # last.tenantId


\* C18: every logout is answered 200 and deletes the session cookie, whether
\* the request carried no token, a token with no Session row, or the token
\* of a stored session; the row of the token, if there is one, is deleted
\* and no other row is.
C18_LogoutAlwaysSucceeds ==
    [][ Called({"logout"}) =>
          /\ last'.status = 200 /\ last'.error = ""
          /\ last'.cleared
          /\ sessions' = sessions \ RowOf(sessions, last'.token)
          /\ RowOf(sessions', last'.token) = {}
          /\ last'.count = Cardinality(RowOf(sessions, last'.token))
      ]_vars

\* a logout with a token that has no row (the session was already deleted
\* by an earlier logout) was answered 200 with the cookie cleared
C18_Witness ==
    /\ last.op = "logout" /\ last.status = 200 /\ last.cleared
    /\ last.token # NoToken /\ last.token < nextToken
    /\ last.count = 0


\* The algorithm of the specification, written without split: the host up to
\* its first ":", its labels counted by its dots, its first label cut at
\* the first dot.
RefIndex(s, c) ==
    IF \E i \in 1..Len(s) : s[i] = c
    THEN CHOOSE i \in 1..Len(s) : s[i] = c /\ \A j \in 1..(i - 1) : s[j] # c
    ELSE Len(s) + 1

RefSubdomain(host) ==
    LET bare   == SubSeq(host, 1, RefIndex(host, ":") - 1)
        labels == Cardinality({ i \in 1..Len(bare) : bare[i] = "." }) + 1
    IN  IF bare = LOCALHOST \/ bare = LOOPBACK THEN NullSubdomain
        ELSE IF labels >= 3 THEN SubSeq(bare, 1, RefIndex(bare, ".") - 1)
        ELSE NullSubdomain

ExtractOps == { "extractSubdomain", "middleware.extractSubdomain" }

C20_LocalhostSubdomain ==
    \A label \in { <<"a">>, <<"a", "a">> } : \A port \in { <<>>, <<":", "a">> } :
        ( last.op \in ExtractOps
          /\ last.host = label \o <<".">> \o LOCALHOST \o port )
        => last.subdomain = label


\* the header the middleware derives from a Host header alone
DerivedHeader(host) == middleware(host, <<>>)

ApiOps == { "login", "signup", "dashboard" }

\* C21: for every request handled by login, signup and the dashboard API,
\* the x-tenant-subdomain value the handler resolves the tenant from is the
\* one the middleware derives from the request's Host header, and so is the
\* tenant resolved; the header the client sent decides nothing.
C21_HeaderIsFromHost ==
    (last.op \in ApiOps /\ last.host # <<>>) =>
        /\ last.header = DerivedHeader(last.host)
        /\ last.reqTenant = getTenantFromRequest(DerivedHeader(last.host)).id


\* C22: getTenantBySubdomain never raises; when the lookup in the database
\* fails, the caller gets the null tenant, the very value it gets for a
\* subdomain that no tenant has.
C22_LookupFailureIsNotFound ==
    last.op = "getTenantBySubdomain" =>
        /\ ~last.threw
        /\ last.logged =>
              /\ last.reqTenant = NoTenant /\ last.subdomain = <<>>
              /\ [id |-> last.reqTenant, subdomain |-> last.subdomain]
                   = getTenantBySubdomain_try(<<"c">>, FALSE).tenant
              /\ getTenantBySubdomain_try(<<"c">>, FALSE).tenant = NullTenant

\* the lookup of an existing tenant's subdomain failed and null was returned
C22_Witness ==
    /\ last.op = "getTenantBySubdomain" /\ last.logged
    /\ last.header = <<"a">> /\ last.reqTenant = NoTenant

\* C23: for every subdomain s, getTenantBySubdomain(s) is
\* getTenantBySubdomain(lowercase(trim(s))): case and surrounding blanks do
\* not matter, and a Host whose first label is a tenant's subdomain in
\* capitals resolves that tenant through the header and through the Host.
C23_ResolutionNormalises ==
    last.op = "getTenantBySubdomain" =>
        LET s == last.header IN
        /\ getTenantBySubdomain(s) = getTenantBySubdomain(toLowerCase(trim(s)))
        /\ ~last.logged =>
              /\ last.reqTenant = getTenantBySubdomain(toLowerCase(trim(s))).id
              /\ \A t \in TenantTable :
                    toLowerCase(trim(s)) = t.subdomain => last.reqTenant = t.id
        /\ \A t \in TenantTable :
              LET host == s \o <<".", "x", ".", "y", ":", "3">> IN
              ( toLowerCase(s) = t.subdomain /\ s = trim(s) ) =>
                /\ getTenantFromRequest(middleware(host, <<>>)) = t
                /\ getTenantBySubdomain(extractSubdomain(host)) = t

\* a subdomain in capitals with a blank after it resolved the tenant stored
\* under the lower-case name
C23_Witness ==
    /\ last.op = "getTenantBySubdomain" /\ ~last.logged
    /\ last.header = <<"B", " ">> /\ last.reqTenant = "T2"


\* C24: presenting to tenant T2 the token of a session of another tenant T1
\* that has not expired gives what a token without a session row gives: the
\* same null result and the same, unchanged, session table, from getSession
\* and from getSessionUser.
C24_ForeignTokenLikeUnknownToken ==
    \A s \in sessions : \A t2 \in TenantIds \ {s.tenantId} :
        s.expiresAt >= now =>
            LET unknown == nextToken IN
            /\ RowOf(sessions, unknown) = {}
            /\ getSession(sessions, now, s.token, t2)
                 = getSession(sessions, now, unknown, t2)
            /\ getSession(sessions, now, s.token, t2).S = sessions
            /\ getSessionUser(users, sessions, now, s.token, t2)
                 = getSessionUser(users, sessions, now, unknown, t2)

\* getSession was given a live token of the other tenant and returned null
C24_Witness ==
    /\ last.op = "getSession" /\ last.reqTenant \in TenantIds
    /\ last.userId = NoUser /\ last.count = 0
    /\ \E s \in sessions :
          /\ s.token = last.token /\ s.expiresAt >= now
          /\ s.tenantId # last.reqTenant


\* C25: dbUser.update, dbUser.delete and dbSession.deleteByToken given a
\* tenantId other than the one of the row they name affect zero rows, raise
\* no error, and leave every row of every table as it was.
C25_WrongTenantWriteIsNoOp ==
    [][ ( /\ Called({"dbUser.update", "dbUser.delete",
                     "dbSession.deleteByToken"})
          /\ \/ /\ last'.op \in {"dbUser.update", "dbUser.delete"}
                /\ \E u \in users : /\ u.id = last'.userId
                                     /\ u.tenantId # last'.reqTenant
             \/ /\ last'.op = "dbSession.deleteByToken"
                /\ \E x \in sessions : /\ x.token = last'.token
                                        /\ x.tenantId # last'.reqTenant )
        => /\ last'.count = 0 /\ ~last'.threw
           /\ users' = users /\ sessions' = sessions
           /\ orgSettings' = orgSettings
      ]_vars

\* dbUser.update named a user of the other tenant, who has a session, and
\* changed nothing
C25_Witness ==
    /\ last.op = "dbUser.update" /\ last.count = 0 /\ ~last.threw
    /\ \E u \in users :
          /\ u.id = last.userId /\ u.tenantId # last.reqTenant
          /\ u.email = EmailLower
          /\ \E x \in sessions : x.userId = u.id


\* C26: withTenant(t, w) has tenantId t, also when w names another tenant,
\* and every other field of w as w has it; the reads of the facade
\* (findMany, count, the views of createTenantScope) called for tenant t
\* return, or count, rows of t only: the rows of t that pass the other
\* filters of the where clause.
UserReadOps ==
    { "dbUser.findMany", "dbUser.count", "scope.user.findMany",
      "scope.user.findUnique" }

SessionReadOps ==
    { "dbSession.findMany", "dbSession.count", "scope.session.findMany",
      "scope.session.findUnique" }

RowsOfTenant(table, t, w) ==
    { r \in table : /\ r.tenantId = t
                    /\ \A f \in DOMAIN w \ {"tenantId"} : r[f] = w[f] }

C26_ReadsAreScoped ==
    /\ last.op = "withTenant" =>
          /\ DOMAIN last.scoped = DOMAIN last.where \cup {"tenantId"}
          /\ last.scoped.tenantId = last.reqTenant
          /\ \A f \in DOMAIN last.where \ {"tenantId"} :
                last.scoped[f] = last.where[f]
    /\ last.op \in UserReadOps \cup SessionReadOps =>
          LET table == IF last.op \in UserReadOps THEN users ELSE sessions
              rows  == RowsOfTenant(table, last.reqTenant, last.where)
          IN  /\ \A r \in last.rows : r.tenantId = last.reqTenant
              /\ last.count = Cardinality(rows)
              /\ last.op \notin {"dbUser.count", "dbSession.count"} =>
                    last.rows = rows
    /\ last.op = "scope.orgSettings.findUnique" =>
          \A o \in orgSettings :
              last.settings = o.settings => o.tenantId = last.reqTenant

\* the view of tenant T1 was asked for the users of T2, which exist, and
\* returned the user of T1
C26_Witness ==
    /\ last.op = "scope.user.findMany" /\ last.reqTenant = "T1"
    /\ last.where = [tenantId |-> "T2"]
    /\ last.count = 1
    /\ \E u \in users : u.tenantId = "T2"


\* C27: logins of one user under one tenant, one after the other or at the
\* same time, each create a session of their own under a token of their
\* own; revoking a session, or the expiry of one, leaves the other sessions
\* stored and valid.
Inserted ==
    /\ last'.op = "createSession"
    /\ \E i \in Slots : pending[i].pc = "creating" /\ pending'[i].pc = "idle"

IdentityOf(s) ==
    [ok |-> TRUE, userId |-> s.userId, tenantId |-> s.tenantId,
     token |-> s.token]

C27_LoginsKeepOwnSessions ==
    [][ /\ Inserted =>
              /\ ~last'.threw
              /\ RowOf(sessions, last'.cookie) = {}
              /\ \E row \in sessions' :
                    /\ sessions' = sessions \cup {row} /\ row \notin sessions
                    /\ row.token = last'.cookie
                    /\ row.userId = last'.userId
                    /\ row.tenantId = last'.reqTenant
        /\ ( /\ Called({"deleteSession", "getSession",
                         "cleanupExpiredSessions"})
             /\ pending' = pending )
            => \A s \in sessions :
                  ( s.token # last'.token /\ s.expiresAt >= now ) =>
                      /\ s \in sessions'
                      /\ getSession(sessions', now', s.token, s.tenantId).res
                           = IdentityOf(s)
      ]_vars

\* two logins of one user overlapped: the session of the login that took
\* its token first was stored last, next to the other one
C27_Witness ==
    /\ last.op = "createSession" /\ ~last.threw
    /\ \E s1, s2 \in sessions :
          /\ s1.userId = s2.userId /\ s1.tenantId = s2.tenantId
          /\ s2.token = last.cookie /\ s1.token > s2.token


\* C28: however a validation is interleaved with a logout or a sweep of the
\* same token, the row it reads is a stored session row, and it returns
\* either the whole identity of that row (userId, tenantId, token) or null;
\* it raises no error and returns no other identity.
RowRead(q) ==
    [userId |-> q.userId, tenantId |-> q.tenantId, token |-> q.token,
     expiresAt |-> q.expiresAt]

C28_ValidationRaceIsAllOrNothing ==
    [][ \A i \in ValidationSlots :
          /\ ( pending[i].pc = "idle" /\ pending'[i].pc = "found" ) =>
                /\ RowRead(pending'[i]) \in sessions
                /\ pending'[i].token \in Tokens
          /\ ( pending[i].pc = "found" /\ pending'[i].pc = "idle" ) =>
                /\ last'.op = "getSession" /\ ~last'.threw
                /\ last'.token = pending[i].token
                /\ \/ /\ last'.userId = NoUser /\ last'.tenantId = NoTenant
                   \/ /\ last'.userId = pending[i].userId
                      /\ last'.tenantId = pending[i].tenantId
                      /\ last'.userId # NoUser /\ last'.tenantId # NoTenant
      ]_vars

\* a validation read an expired session, the sweep deleted the row first,
\* and the validation returned null without raising
C28_Witness ==
    /\ last.op = "getSession" /\ last.logged /\ ~last.threw
    /\ last.userId = NoUser /\ last.token \in Tokens
    /\ RowOf(sessions, last.token) = {}


\* C29: from its creation to its deletion a session row keeps its userId,
\* tenantId, token and expiresAt: after any operation the row is stored as
\* it was or no row has its token; a validation that succeeds changes no
\* session row, so it never extends the expiry.
C29_SessionRowsNeverChange ==
    [][ /\ \A s \in sessions :
              s \in sessions' \/ RowOf(sessions', s.token) = {}
        /\ ( Called(ValidationOps) /\ last'.userId # NoUser )
              => sessions' = sessions
      ]_vars

\* a session was validated with success on the day it expires, a later day
\* than the one it was created on, and still expires that day
C29_Witness ==
    /\ last.op = "dashboard" /\ last.status = 200 /\ now > 0
    /\ \E s \in sessions : s.token = last.token /\ s.expiresAt = now


\* C30: a token names at most one session row: two stored sessions never
\* have the same token, whatever token the generator hands out.
C30_TokenNamesOneSession ==
    /\ \A s1, s2 \in sessions : s1.token = s2.token => s1 = s2
    /\ \A k \in Tokens : Cardinality(RowOf(sessions, k)) <= 1

\* a session was to be created under the token of a stored session of the
\* other user, and was refused
C30_Witness ==
    /\ last.op = "createSession" /\ last.threw
    /\ \E s \in sessions : s.token = last.token /\ s.userId # last.userId


\* C31: within one authentication request the tenant is resolved first,
\* the session is validated next and the user is loaded last, each step
\* only after the one before succeeded: with the tenant unresolved no
\* session row is read or deleted, with the session invalid no user row is
\* read.
GateOps == { "getAuthenticatedUser", "getServerAuthUser" }

CallRank(c) ==
    CASE c = "tenant.findUnique"  -> 1
      [] c = "session.findUnique" -> 2
      [] c = "session.delete"     -> 3
      [] c = "user.findUnique"    -> 4

InOrder(calls) ==
    \A i, j \in DOMAIN calls : i < j => CallRank(calls[i]) < CallRank(calls[j])

Made(calls) == { calls[i] : i \in DOMAIN calls }

C31_GateStepsInOrder ==
    last.op \in GateOps =>
          /\ InOrder(last.calls)
          /\ last.reqTenant = NoTenant =>
                Made(last.calls) \subseteq {"tenant.findUnique"}
          /\ Made(last.calls) \ {"tenant.findUnique"} # {} =>
                /\ last.reqTenant \in TenantIds
                /\ last.calls[1] = "tenant.findUnique"
          /\ last.rows = {} => "user.findUnique" \notin Made(last.calls)
          /\ "user.findUnique" \in Made(last.calls) =>
                /\ last.calls = <<"tenant.findUnique", "session.findUnique",
                                  "user.findUnique">>
                /\ \A r \in last.rows :
                      r.token = last.token /\ r.tenantId = last.reqTenant
          /\ last.userId # NoUser => "user.findUnique" \in Made(last.calls)

\* a request whose tenant does not resolve carried the token of a stored
\* session: the tenant was looked up and nothing else
C31_Witness ==
    /\ last.op = "getAuthenticatedUser" /\ last.reqTenant = NoTenant
    /\ last.calls = <<"tenant.findUnique">>
    /\ RowOf(sessions, last.token) # {}


\* C34: authenticating with the token of a session that has not expired
\* changes neither the User nor the Session table, whatever the outcome:
\* the user returned, the tenant not the session's, the user row gone, the
\* user row of another tenant than the session.
C34_GateOnlyReads ==
    [][ \A i \in ValidationSlots :
          LET refused == /\ last'.op = "getSessionUser" /\ now' = now
                         /\ pending' = pending
              began   == pending[i].pc = "idle" /\ pending'[i].pc = "loadUser"
              loaded  == pending[i].pc = "loadUser" /\ pending'[i].pc = "idle"
              token   == IF loaded THEN pending[i].token
                         ELSE IF began THEN pending'[i].token
                         ELSE last'.token
          IN  ( /\ refused \/ began \/ loaded
                /\ loaded \/ \E x \in RowOf(sessions, token) :
                                  x.expiresAt >= now )
              => /\ users' = users /\ sessions' = sessions
                 /\ loaded => last'.count = 0
      ]_vars

\* the session was accepted, its user was deleted before the user was
\* looked up, and the gate answered null
C34_Witness ==
    /\ last.op = "getSessionUser" /\ last.userId = NoUser
    /\ last.calls = <<"session.findUnique", "user.findUnique">>
    /\ \E r \in last.rows : \A u \in users : u.id # r.userId


\* C32: a signup without email or password, with a malformed email or with
\* a password of fewer than 6 characters is answered 400 and creates no user
\* and no session; a password of exactly 6 characters passes the length
\* check.
ShapeOK(e) ==
    LET ats == { i \in DOMAIN e : e[i] = "@" } IN
    /\ Cardinality(ats) = 1
    /\ \A i \in DOMAIN e : ~IsSpace(e[i])
    /\ \A i \in ats :
          /\ i > 1
          /\ \E j \in (i + 2)..(Len(e) - 1) : e[j] = "."

BadInput(b) ==
    \/ b.email = <<>> \/ b.password = <<>>
    \/ ~ShapeOK(b.email)
    \/ Len(b.password) < 6

SignupOf(h, b) ==
    signupPOST(users, sessions, now, h, b.email, b.password, nextUid,
               nextToken)

\* as stated: whatever the tenant of the request
C32_BadInputIsBadRequest ==
    \A h \in HeaderValues, b \in Bodies :
        BadInput(b) =>
            /\ SignupOf(h, b).resp.status = 400
            /\ SignupOf(h, b).U = users /\ SignupOf(h, b).S = sessions

\* C32, amended: the tenant is resolved before the input is looked at; a
\* signup with such input is answered 400 when the tenant of the request
\* resolves and 404 when it does not, and in both cases creates no user and
\* no session; with a well-formed email and a password of exactly 6
\* characters the answer is not 400.
C32_BadInputRejected ==
    \A h \in HeaderValues, b \in Bodies :
        LET r == SignupOf(h, b) IN
        /\ BadInput(b) =>
              /\ r.resp.status
                   = IF getTenantFromRequest(h) = NullTenant THEN 404 ELSE 400
              /\ r.U = users /\ r.S = sessions
              /\ ~r.usedUid /\ ~r.usedToken
        /\ ( Len(b.password) = 6 /\ ~BadInput(b) ) => r.resp.status # 400

\* a signup with a password of 5 characters was answered 400 under a
\* resolved tenant, after one with 6 characters had created a user
C32_Witness ==
    /\ last.op = "signup" /\ last.status = 400
    /\ last.error = "Password must be at least 6 characters long"
    /\ last.reqTenant \in TenantIds
    /\ \E u \in users : Len(u.password) > 0


\* C33: a validation for tenant T2 of a token whose session is stored with
\* another tenantId T1 leaves the session table as it was, whether or not
\* the session has expired.
C33_MismatchNeverDeletes ==
    [][ ( /\ Called({"getSession"})
          /\ last'.reqTenant \in TenantIds
          /\ \E x \in RowOf(sessions, last'.token) :
                x.tenantId # last'.reqTenant )
        => sessions' = sessions
      ]_vars


\* C35: after a signup under tenant T that succeeded with {email, password},
\* a login under T with the very same email string and password succeeds
\* and returns the id of the user the signup created, for every email that
\* signup accepts.
C35_LoginAfterSignup ==
    \A h \in Resolved, b \in Bodies :
        LET r == SignupOf(h, b) IN
        r.resp.status = 201 =>
            LET l == loginPOST(r.U, r.S, now, h, b.email, b.password,
                               nextToken + 1).resp
            IN  l.status = 200 /\ l.userId = r.resp.userId


\* C36: a signup that ends in anything but the created outcome (bad
\* request, tenant not found, conflict, server error) leaves the User and
\* Session tables exactly as they were: a user row exists after a signup
\* only if the answer was 201.
C36_FailedSignupChangesNothing ==
    [][ ( Called({"signup"}) /\ last'.status # 201 )
        => users' = users /\ sessions' = sessions
      ]_vars

\* C37: once a logout carrying token k has answered success, the session
\* row of k is absent, so that no later validation of k succeeds under any
\* tenant, also when the database reported an error during the delete.
C37_LogoutRemovesSession ==
    [][ ( Called({"logout"}) /\ last'.status = 200 )
        => /\ RowOf(sessions', last'.token) = {}
           /\ \A h \in HeaderValues :
                 dashboardGET(users', sessions', orgSettings', now', h,
                              last'.token).resp.status # 200
      ]_vars

\* C38: the activeSessions figure of the dashboard for tenant T agrees with
\* session validation at the same instant: it is the number of sessions of T
\* that pass validation at now, a session whose expiresAt equals now
\* included.
C38_ActiveSessionsAreValidSessions ==
    [][ ( Called({"dashboard"}) /\ last'.status = 200 )
        => last'.activeSessions =
             Cardinality({ s \in sessions' :
                 /\ s.tenantId = last'.tenantId
                 /\ getSession(sessions', now', s.token, s.tenantId).res.ok })
      ]_vars

====
